---------------------------- MODULE Spec2Model ----------------------------
(***************************************************************************)
(* Model of the intraday breakout backtester:                              *)
(*   src/src/execution/backtest_exec.py   BacktestEngine.run               *)
(*   src/src/strategy/intraday_breakout.py IntradayBreakoutStrategy        *)
(*   src/src/utils/timeutils.py           is_in_session, parse_time_str    *)
(*                                                                         *)
(* Prices, volumes, P&L and equity are Python floats in the source.  They  *)
(* are modelled by exact rationals <<n, d>> (d > 0, lowest terms), so the  *)
(* arithmetic identities are those of the real numbers the floats          *)
(* approximate.  Bar prices are integers; timestamps are minutes of local  *)
(* time (the configured timezone) since the first modelled midnight.       *)
(***************************************************************************)
EXTENDS Integers, Sequences, FiniteSets, TLC

(***************************************************************************)
(* Bounds of the model                                                     *)
(***************************************************************************)
\* longest bar sequence of one symbol
MaxBars == 4
\* last modelled calendar day (days are 0..MaxDay)
MaxDay == 0
\* bar prices range over MinPrice..MaxPrice
MinPrice == 9
MaxPrice == 11

(***************************************************************************)
(* Optional values (Python None / a value)                                 *)
(***************************************************************************)
None == <<>>
Some(x) == <<x>>
Val(o) == o[1]

(***************************************************************************)
(* Exact rational arithmetic standing for the float operations             *)
(***************************************************************************)
Abs(i) == IF i < 0 THEN -i ELSE i

RECURSIVE GCD(_, _)
GCD(a, b) == IF b = 0 THEN a ELSE GCD(b, a % b)

RNorm(n, d) ==
    LET g == GCD(Abs(n), d)
    IN  <<n \div g, d \div g>>

R(i) == <<i, 1>>
Frac(n, d) == RNorm(n, d)
RAdd(a, b) == RNorm(a[1] * b[2] + b[1] * a[2], a[2] * b[2])
RNeg(a) == <<-a[1], a[2]>>
RSub(a, b) == RAdd(a, RNeg(b))
RMul(a, b) ==
    LET g1 == GCD(Abs(a[1]), b[2])
        g2 == GCD(Abs(b[1]), a[2])
        h1 == IF g1 = 0 THEN 1 ELSE g1
        h2 == IF g2 = 0 THEN 1 ELSE g2
    IN  RNorm((a[1] \div h1) * (b[1] \div h2), (a[2] \div h2) * (b[2] \div h1))
\* b > 0 wherever the engine divides (a bar's open price)
RDiv(a, b) == RMul(a, <<b[2], b[1]>>)
RLe(a, b) == a[1] * b[2] <= b[1] * a[2]
RLt(a, b) == a[1] * b[2] < b[1] * a[2]
RGe(a, b) == RLe(b, a)
RGt(a, b) == RLt(b, a)

(***************************************************************************)
(* Time: pandas timestamps converted to the configured timezone            *)
(***************************************************************************)
MinutesPerDay == 1440
\* ts.tz_convert(tz).date()
LocalDate(ts) == ts \div MinutesPerDay
\* to_timezone(ts, tz).timetz()
TimeOfDay(ts) == ts % MinutesPerDay

\* parse_time_str("HH:MM"): the string is given as <<HH, MM>>
ParseTimeStr(s) == 60 * s[1] + s[2]

\* times of day at which a bar may close: before the session, at its start,
\* inside it, and at its (exclusive) end
BarTimes == {300, 360, 1140, 1200}
Timestamps == {MinutesPerDay * d + t : d \in 0..MaxDay, t \in BarTimes}

Prices == MinPrice..MaxPrice
\* OHLC rows of the data frame (close is never read by the engine or the strategy)
Bars == {b \in [ts : Timestamps, open : Prices, high : Prices, low : Prices] :
            b.low <= b.open /\ b.open <= b.high}

(***************************************************************************)
(* Configuration (Config, SessionConfig, CostsConfig) and engine inputs    *)
(***************************************************************************)
\* config.symbols: one instrument, or two processed one after the other
OneSymbol == <<"EURUSD">>
TwoSymbols == <<"EURUSD", "GBPUSD">>

\* the unit test's risk parameters with zero costs, and the same with costs
ZeroCostConfig(symbols) ==
    [symbols |-> symbols,
     session_start |-> <<6, 0>>, session_end |-> <<20, 0>>,
     sl_pct |-> Frac(1, 10), tp_pct |-> Frac(1, 10),
     equity_pct_per_trade |-> Frac(1, 2),
     spread |-> R(0), slippage |-> R(0), commission_per_lot |-> R(0)]

CostlyConfig(symbols) ==
    [symbols |-> symbols,
     session_start |-> <<6, 0>>, session_end |-> <<20, 0>>,
     sl_pct |-> Frac(1, 10), tp_pct |-> Frac(1, 10),
     equity_pct_per_trade |-> Frac(1, 2),
     spread |-> R(1), slippage |-> Frac(1, 2), commission_per_lot |-> Frac(1, 4)]

ConfigsFor(symbols) == {ZeroCostConfig(symbols), CostlyConfig(symbols)}
InitialEquities == {R(100)}

VARIABLES
    config,          \* self.config
    initial_equity,  \* self.initial_equity
    pc,              \* "load" | "loop" | "done" | "raised"
    symIdx,          \* position of the for loop over config.symbols (1-based)
    nbars,           \* len(df) of the symbol being processed
    idx,             \* the inner loop's idx
    bar,             \* df.iloc[idx] with df.index[idx] as bar.ts
    state,           \* IntradayState of the symbol
    position,        \* Optional[Position]
    equity,          \* running equity
    trades,          \* List[Trade]
    equity_curve,    \* List[EquityPoint]
    last,            \* history: what the last loop iteration saw and did
    mt5              \* the MT5Engine object, its state file and its run() (None elsewhere)

vars == <<config, initial_equity, pc, symIdx, nbars, idx, bar, state, position,
          equity, trades, equity_curve, last, mt5>>


(***************************************************************************)
(* Session clock: src/src/utils/timeutils.py                               *)
(***************************************************************************)
\* is_in_session after a bug that makes the end boundary inclusive
IsInSessionEndInclusive(ts, session_start, session_end) ==
    /\ session_start <= TimeOfDay(ts)
    /\ TimeOfDay(ts) <= session_end

\* session_start <= current_time < session_end
IsInSession(ts, session_start, session_end) ==
    /\ session_start <= TimeOfDay(ts)
    /\ TimeOfDay(ts) < session_end

(***************************************************************************)
(* Breakout strategy: src/src/strategy/intraday_breakout.py                *)
(***************************************************************************)
\* IntradayState()
NewIntradayState == [high |-> None, low |-> None, current_date |-> None]

\* the top of evaluate_bar after a bug that keeps the levels across days
ResetKeepsLevels(ts, st) ==
    [st EXCEPT !.current_date = Some(LocalDate(ts))]

\* the day reset at the top of evaluate_bar
ResetIfNewDay(ts, st) ==
    IF st.current_date # Some(LocalDate(ts))
    THEN [high |-> None, low |-> None, current_date |-> Some(LocalDate(ts))]
    ELSE st

\* the long trigger after a bug that lets a high equal to the level trigger
LongTriggerInclusive(b, st) == st.high # None /\ b.high >= Val(st.high)

\* the triggers, read against the levels of the previous bars
LongTrigger(b, st) == st.high # None /\ b.high > Val(st.high)
ShortTrigger(b, st) == st.low # None /\ b.low < Val(st.low)

\* the decision after a bug that resolves an ambiguous bar to long
ResolveSignalLongFirst(long_signal, short_signal) ==
    IF long_signal THEN "long"
    ELSE IF short_signal THEN "short"
    ELSE "none"

\* signal = 'long' | 'short' | None ("none")
ResolveSignal(long_signal, short_signal) ==
    IF long_signal /\ ~short_signal THEN "long"
    ELSE IF short_signal /\ ~long_signal THEN "short"
    ELSE "none"

\* the level update after a bug that overwrites the levels with every bar
UpdateLevelsOverwrite(b, st) ==
    [st EXCEPT !.high = Some(b.high), !.low = Some(b.low)]

\* the update of the intraday high and low with the current bar
UpdateLevels(b, st) ==
    [st EXCEPT
        !.high = IF st.high = None \/ b.high > Val(st.high) THEN Some(b.high) ELSE @,
        !.low  = IF st.low = None \/ b.low < Val(st.low) THEN Some(b.low) ELSE @]

\* evaluate_bar after a bug that applies the session filter first and returns
\* the state untouched for a bar outside the session
EvaluateBarSessionFirst(ts, b, st) ==
    IF IsInSession(ts, ParseTimeStr(config.session_start),
                   ParseTimeStr(config.session_end))
    THEN LET s1 == ResetIfNewDay(ts, st)
         IN  [signal |-> ResolveSignal(LongTrigger(b, s1), ShortTrigger(b, s1)),
              state |-> UpdateLevels(b, s1)]
    ELSE [signal |-> "none", state |-> st]

\* evaluate_bar after a bug that evaluates the triggers before the day reset
EvaluateBarTriggersFirst(ts, b, st) ==
    LET sig == ResolveSignal(LongTrigger(b, st), ShortTrigger(b, st))
        s2 == UpdateLevels(b, ResetIfNewDay(ts, st))
    IN  [signal |-> IF IsInSession(ts, ParseTimeStr(config.session_start),
                                   ParseTimeStr(config.session_end))
                    THEN sig ELSE "none",
         state |-> s2]

\* evaluate_bar(ts, bar, state) -> (signal, state)
EvaluateBar(ts, b, st) ==
    LET s1 == ResetIfNewDay(ts, st)
        sig == ResolveSignal(LongTrigger(b, s1), ShortTrigger(b, s1))
        s2 == UpdateLevels(b, s1)
    IN  [signal |-> IF IsInSession(ts, ParseTimeStr(config.session_start),
                                   ParseTimeStr(config.session_end))
                    THEN sig ELSE "none",
         state |-> s2]

(***************************************************************************)
(* Backtest engine: src/src/execution/backtest_exec.py                     *)
(***************************************************************************)
\* half_spread + slippage, the cost applied to every fill
FillCost == RAdd(RDiv(config.spread, R(2)), config.slippage)

\* _compute_fees
ComputeFees(volume) == RMul(config.commission_per_lot, volume)

\* the exit check after a bug that needs the level to be passed, not touched
ExitSignalStrict(pos, b) ==
    IF pos.side = "long"
    THEN IF RLt(R(b.low), pos.sl_price) THEN "sl"
         ELSE IF RGt(R(b.high), pos.tp_price) THEN "tp"
         ELSE "none"
    ELSE IF RGt(R(b.high), pos.sl_price) THEN "sl"
         ELSE IF RLt(R(b.low), pos.tp_price) THEN "tp"
         ELSE "none"

\* the exit check after a bug that spares a position on its own entry bar
ExitSignalAfterEntryBar(pos, b) ==
    IF b.ts = pos.entry_time THEN "none"
    ELSE IF pos.side = "long"
    THEN IF RLe(R(b.low), pos.sl_price) THEN "sl"
         ELSE IF RGe(R(b.high), pos.tp_price) THEN "tp"
         ELSE "none"
    ELSE IF RGe(R(b.high), pos.sl_price) THEN "sl"
         ELSE IF RLe(R(b.low), pos.tp_price) THEN "tp"
         ELSE "none"

\* the exit check after a bug that tests the target before the stop
ExitSignalTargetFirst(pos, b) ==
    IF pos.side = "long"
    THEN IF RGe(R(b.high), pos.tp_price) THEN "tp"
         ELSE IF RLe(R(b.low), pos.sl_price) THEN "sl"
         ELSE "none"
    ELSE IF RLe(R(b.low), pos.tp_price) THEN "tp"
         ELSE IF RGe(R(b.high), pos.sl_price) THEN "sl"
         ELSE "none"

\* exit_signal: 'sl' | 'tp' | None ("none"); the stop is tested first
ExitSignal(pos, b) ==
    IF pos.side = "long"
    THEN IF RLe(R(b.low), pos.sl_price) THEN "sl"
         ELSE IF RGe(R(b.high), pos.tp_price) THEN "tp"
         ELSE "none"
    ELSE IF RGe(R(b.high), pos.sl_price) THEN "sl"
         ELSE IF RLe(R(b.low), pos.tp_price) THEN "tp"
         ELSE "none"

\* exit_base_price: the breached level
ExitBasePrice(pos, exit_signal) ==
    IF exit_signal = "sl" THEN pos.sl_price ELSE pos.tp_price

\* the exit fill after a bug that fills at the bar's extreme instead of the level
ExitPriceAtExtreme(pos, exit_signal, b) ==
    IF pos.side = "long"
    THEN RSub(IF exit_signal = "sl" THEN R(b.low) ELSE R(b.high), FillCost)
    ELSE RAdd(IF exit_signal = "sl" THEN R(b.high) ELSE R(b.low), FillCost)

\* exit_price: sell at bid for a long, buy at ask for a short
ExitPrice(pos, exit_signal, b) ==
    IF pos.side = "long"
    THEN RSub(ExitBasePrice(pos, exit_signal), FillCost)
    ELSE RAdd(ExitBasePrice(pos, exit_signal), FillCost)

\* pnl after a bug that uses the long formula for both sides
PnlLongOnly(pos, exit_price) ==
    RMul(RSub(exit_price, pos.entry_price), pos.volume)

\* pnl of the closed position
Pnl(pos, exit_price) ==
    IF pos.side = "long"
    THEN RMul(RSub(exit_price, pos.entry_price), pos.volume)
    ELSE RMul(RSub(pos.entry_price, exit_price), pos.volume)

\* Trade(...) built when a position is closed on the bar with timestamp ts
CloseTrade(pos, exit_signal, b) ==
    LET exit_price == ExitPrice(pos, exit_signal, b)
        pnl == Pnl(pos, exit_price)
    IN  [symbol |-> pos.symbol, side |-> pos.side, volume |-> pos.volume,
         entry_price |-> pos.entry_price, exit_price |-> exit_price,
         entry_time |-> pos.entry_time, exit_time |-> b.ts,
         pnl |-> pnl, fees |-> ComputeFees(pos.volume), reason |-> exit_signal]

\* equity += pnl - fees, after a bug that forgets the fees
EquityAfterNoFees(eq, trade) == RAdd(eq, trade.pnl)

\* equity += pnl - fees
EquityAfter(eq, trade) == RAdd(eq, RSub(trade.pnl, trade.fees))

\* the entry fill after a bug that applies the cost in the trader's favour
EntryPriceFavourable(signal, open_price) ==
    IF signal = "long"
    THEN RSub(R(open_price), FillCost)
    ELSE RAdd(R(open_price), FillCost)

\* entry_price from the next bar's open
EntryPrice(signal, open_price) ==
    IF signal = "long"
    THEN RAdd(R(open_price), FillCost)
    ELSE RSub(R(open_price), FillCost)

\* sl_price
SlPrice(signal, entry_price) ==
    IF signal = "long"
    THEN RMul(entry_price, RSub(R(1), config.sl_pct))
    ELSE RMul(entry_price, RAdd(R(1), config.sl_pct))

\* tp_price
TpPrice(signal, entry_price) ==
    IF signal = "long"
    THEN RMul(entry_price, RAdd(R(1), config.tp_pct))
    ELSE RMul(entry_price, RSub(R(1), config.tp_pct))

\* the sizing after a bug that sizes every position from the starting equity
VolumeOfInitialEquity(eq, open_price) ==
    RDiv(RMul(initial_equity, config.equity_pct_per_trade), R(open_price))

\* volume = (equity * equity_pct_per_trade) / open_price
Volume(eq, open_price) ==
    RDiv(RMul(eq, config.equity_pct_per_trade), R(open_price))

\* the position after a bug that places the stop a fraction of the equity away
OpenPositionEquityStop(symbol, signal, eq, next_bar) ==
    LET entry_price == EntryPrice(signal, next_bar.open)
        risk == RMul(eq, RDiv(config.sl_pct, R(100)))
    IN  [symbol |-> symbol, side |-> signal,
         volume |-> Volume(eq, next_bar.open),
         entry_price |-> entry_price,
         sl_price |-> IF signal = "long" THEN RSub(entry_price, risk)
                      ELSE RAdd(entry_price, risk),
         tp_price |-> TpPrice(signal, entry_price),
         entry_time |-> next_bar.ts]

\* the levels after a bug that derives them from the raw open
OpenPositionRawLevels(symbol, signal, eq, next_bar) ==
    [symbol |-> symbol, side |-> signal,
     volume |-> Volume(eq, next_bar.open),
     entry_price |-> EntryPrice(signal, next_bar.open),
     sl_price |-> SlPrice(signal, R(next_bar.open)),
     tp_price |-> TpPrice(signal, R(next_bar.open)),
     entry_time |-> next_bar.ts]

\* Position(...) opened from a signal, priced at the next bar
OpenPosition(symbol, signal, eq, next_bar) ==
    LET entry_price == EntryPrice(signal, next_bar.open)
    IN  [symbol |-> symbol, side |-> signal,
         volume |-> Volume(eq, next_bar.open),
         entry_price |-> entry_price,
         sl_price |-> SlPrice(signal, entry_price),
         tp_price |-> TpPrice(signal, entry_price),
         entry_time |-> next_bar.ts]


\* the entry guard after a bug that evaluates a new entry on every bar
EntryAllowedAlways(pos) == TRUE

\* "if position is None:" the guard of the entry branch
EntryAllowed(pos) == pos = None

\* the curve after a bug that stamps a point with the bar's date (midnight)
CurveAfterDateStamp(curve, closed, ts, eq) ==
    IF closed
    THEN Append(curve, [timestamp |-> MinutesPerDay * LocalDate(ts), equity |-> eq])
    ELSE curve

\* the curve after a bug that marks equity to the curve on every bar
CurveAfterEveryBar(curve, closed, ts, eq) ==
    Append(curve, [timestamp |-> ts, equity |-> eq])

\* equity_curve after the close branch of one iteration
CurveAfter(curve, closed, ts, eq) ==
    IF closed THEN Append(curve, [timestamp |-> ts, equity |-> eq]) ELSE curve

\* enough later timestamps remain for the rows that follow row i (0-based) of n
RoomAfter(ts, i, n) == Cardinality({t \in Timestamps : t > ts}) >= n - 1 - i

\* the iteration after a bug that evaluates the entry first and exit-checks
\* the position, the one just opened included, against the same bar
IterationExitAfterEntry(symbol, b, next_bar, st, pos0, eq0, trs0, curve0) ==
    LET evaluated == EntryAllowed(pos0)
        ev == EvaluateBar(b.ts, b, st)
        signal == IF evaluated THEN ev.signal ELSE "skip"
        opened == evaluated /\ ev.signal # "none"
        pos1 == IF opened
                THEN Some(OpenPosition(symbol, ev.signal, eq0, next_bar))
                ELSE pos0
        exit_signal == IF pos1 # None THEN ExitSignal(Val(pos1), b) ELSE "none"
        closed == exit_signal # "none"
        trade == CloseTrade(Val(pos1), exit_signal, b)
        eq1 == IF closed THEN EquityAfter(eq0, trade) ELSE eq0
    IN  [state |-> IF evaluated THEN ev.state ELSE st,
         position |-> IF closed THEN None ELSE pos1,
         equity |-> eq1,
         trades |-> IF closed THEN Append(trs0, trade) ELSE trs0,
         equity_curve |-> CurveAfter(curve0, closed, b.ts, eq1),
         exit_signal |-> exit_signal, signal |-> signal]

\* the iteration after a bug that goes on to the next bar once a position is
\* closed (continue), evaluating no new entry on the closing bar
IterationContinueAfterClose(symbol, b, next_bar, st, pos0, eq0, trs0, curve0) ==
    LET exit_signal == IF pos0 # None THEN ExitSignal(Val(pos0), b) ELSE "none"
        closed == exit_signal # "none"
        trade == CloseTrade(Val(pos0), exit_signal, b)
        eq1 == IF closed THEN EquityAfter(eq0, trade) ELSE eq0
        trs1 == IF closed THEN Append(trs0, trade) ELSE trs0
        curve1 == CurveAfter(curve0, closed, b.ts, eq1)
        pos1 == IF closed THEN None ELSE pos0
        evaluated == pos0 = None
        ev == EvaluateBar(b.ts, b, st)
        signal == IF evaluated THEN ev.signal ELSE "skip"
        opened == evaluated /\ ev.signal # "none"
    IN  [state |-> IF evaluated THEN ev.state ELSE st,
         position |-> IF opened
                      THEN Some(OpenPosition(symbol, ev.signal, eq1, next_bar))
                      ELSE pos1,
         equity |-> eq1, trades |-> trs1, equity_curve |-> curve1,
         exit_signal |-> exit_signal, signal |-> signal]

\* one iteration of "for idx in range(len(df) - 1)" on bar b with next_bar following
Iteration(symbol, b, next_bar, st, pos0, eq0, trs0, curve0) ==
    LET exit_signal == IF pos0 # None THEN ExitSignal(Val(pos0), b) ELSE "none"
        closed == exit_signal # "none"
        trade == CloseTrade(Val(pos0), exit_signal, b)
        eq1 == IF closed THEN EquityAfter(eq0, trade) ELSE eq0
        trs1 == IF closed THEN Append(trs0, trade) ELSE trs0
        curve1 == CurveAfter(curve0, closed, b.ts, eq1)
        pos1 == IF closed THEN None ELSE pos0
        evaluated == EntryAllowed(pos1)
        ev == EvaluateBar(b.ts, b, st)
        signal == IF evaluated THEN ev.signal ELSE "skip"
        opened == evaluated /\ ev.signal # "none"
    IN  [state |-> IF evaluated THEN ev.state ELSE st,
         position |-> IF opened
                      THEN Some(OpenPosition(symbol, ev.signal, eq1, next_bar))
                      ELSE pos1,
         equity |-> eq1, trades |-> trs1, equity_curve |-> curve1,
         exit_signal |-> exit_signal, signal |-> signal]

\* BacktestEngine(config, initial_equity) at the start of run()
InitWith(configs) ==
    /\ config \in configs
    /\ initial_equity \in InitialEquities
    /\ pc = "load"
    /\ symIdx = 1
    /\ nbars = 0
    /\ idx = 0
    /\ bar = None
    /\ state = NewIntradayState
    /\ position = None
    /\ equity = initial_equity
    /\ trades = <<>>
    /\ equity_curve = <<>>
    /\ last = None
    /\ mt5 = None

Init == InitWith(ConfigsFor(OneSymbol))
InitMulti == InitWith(ConfigsFor(TwoSymbols))

\* the for loop over config.symbols moves on
NextSymbolPc == IF symIdx + 1 > Len(config.symbols) THEN "done" ELSE "load"

\* data_loader.load(symbol) raises FileNotFoundError: run() is left by the exception
LoadMissing ==
    /\ pc = "load"
    /\ pc' = "raised"
    /\ UNCHANGED <<mt5, config, initial_equity, symIdx, nbars, idx, bar, state, position,
                   equity, trades, equity_curve, last>>

\* the short-sequence branch after a bug that leaves the symbol loop (break)
LoadShortBreaks ==
    /\ pc = "load"
    /\ \E n \in 0..1 :
         /\ nbars' = n
         /\ symIdx' = symIdx + 1
         /\ pc' = "done"
    /\ UNCHANGED <<mt5, config, initial_equity, idx, bar, state, position,
                   equity, trades, equity_curve, last>>

\* data_loader.load(symbol) returns fewer than two rows: continue
LoadShort ==
    /\ pc = "load"
    /\ \E n \in 0..1 :
         /\ nbars' = n
         /\ symIdx' = symIdx + 1
         /\ pc' = NextSymbolPc
    /\ UNCHANGED <<mt5, config, initial_equity, idx, bar, state, position,
                   equity, trades, equity_curve, last>>

\* data_loader.load(symbol) returns n >= 2 rows: the per-symbol state is initialised
LoadSymbol ==
    /\ pc = "load"
    /\ \E n \in 2..MaxBars, b \in Bars :
         /\ RoomAfter(b.ts, 0, n)
         /\ nbars' = n
         /\ bar' = Some(b)
    /\ idx' = 0
    /\ state' = NewIntradayState
    /\ position' = None
    /\ pc' = "loop"
    /\ last' = None
    /\ UNCHANGED <<mt5, config, initial_equity, symIdx, equity, trades, equity_curve>>

\* history: the local date of the bars the loop has iterated over and the
\* highest high and lowest low among those of them that fall on the date of b
DayOfBars(prev, b) ==
    IF prev = None \/ Val(prev).day.date # LocalDate(b.ts)
    THEN [date |-> LocalDate(b.ts), high |-> b.high, low |-> b.low]
    ELSE [date |-> LocalDate(b.ts),
          high |-> IF b.high > Val(prev).day.high THEN b.high ELSE Val(prev).day.high,
          low |-> IF b.low < Val(prev).day.low THEN b.low ELSE Val(prev).day.low]

\* one iteration after a bug that exit-checks the final row as well, once
\* the last iteration is done
StepWithFinalCheck(next_bar) ==
    /\ \E r \in {Iteration(config.symbols[symIdx], Val(bar), next_bar, state,
                          position, equity, trades, equity_curve)} :
         LET final == ~(idx + 1 < nbars - 1)
             exit_signal == IF final /\ r.position # None
                            THEN ExitSignal(Val(r.position), next_bar)
                            ELSE "none"
             closed == exit_signal # "none"
             trade == CloseTrade(Val(r.position), exit_signal, next_bar)
             eq == IF closed THEN EquityAfter(r.equity, trade) ELSE r.equity
         IN  /\ state' = r.state
             /\ position' = IF closed THEN None ELSE r.position
             /\ equity' = eq
             /\ trades' = IF closed THEN Append(r.trades, trade) ELSE r.trades
             /\ equity_curve' = CurveAfter(r.equity_curve, closed, next_bar.ts, eq)
             /\ last' = Some([bar |-> Val(bar), pos |-> position,
                              exit_signal |-> r.exit_signal, signal |-> r.signal,
                              day |-> DayOfBars(last, Val(bar))])
    /\ bar' = Some(next_bar)
    /\ idx' = idx + 1
    /\ IF idx + 1 < nbars - 1
       THEN UNCHANGED <<pc, symIdx>>
       ELSE /\ symIdx' = symIdx + 1
            /\ pc' = NextSymbolPc
    /\ UNCHANGED <<mt5, config, initial_equity, nbars>>

\* one iteration of the inner loop with next_bar = df.iloc[idx + 1]; after the
\* last one the symbol loop moves on
StepWith(next_bar) ==
    /\ \E r \in {Iteration(config.symbols[symIdx], Val(bar), next_bar, state,
                          position, equity, trades, equity_curve)} :
         /\ state' = r.state
         /\ position' = r.position
         /\ equity' = r.equity
         /\ trades' = r.trades
         /\ equity_curve' = r.equity_curve
         /\ last' = Some([bar |-> Val(bar), pos |-> position,
                          exit_signal |-> r.exit_signal, signal |-> r.signal,
                          day |-> DayOfBars(last, Val(bar))])
    /\ bar' = Some(next_bar)
    /\ idx' = idx + 1
    /\ IF idx + 1 < nbars - 1
       THEN UNCHANGED <<pc, symIdx>>
       ELSE /\ symIdx' = symIdx + 1
            /\ pc' = NextSymbolPc
    /\ UNCHANGED <<mt5, config, initial_equity, nbars>>

\* the inner loop over any strictly increasing bar sequence
StepBar ==
    /\ pc = "loop"
    /\ \E next_bar \in Bars :
         /\ next_bar.ts > Val(bar).ts
         /\ RoomAfter(next_bar.ts, idx + 1, nbars)
         /\ StepWith(next_bar)

Next == LoadMissing \/ LoadShort \/ LoadSymbol \/ StepBar

\* a run over one instrument
Spec == Init /\ [][Next]_vars

\* a run over two instruments sharing the running equity
SpecMulti == InitMulti /\ [][Next]_vars


(***************************************************************************)
(* evaluate_bar on its own: any state a caller may pass in (the unit tests *)
(* build states by hand), any bar, the returned state threaded on          *)
(***************************************************************************)
EvalDays == 0..(MaxDay + 1)
EvalTimestamps == {MinutesPerDay * d + t : d \in EvalDays, t \in BarTimes}
EvalBars == {b \in [ts : EvalTimestamps, open : Prices, high : Prices, low : Prices] :
                b.low <= b.open /\ b.open <= b.high}
OptPrices == {None} \cup {Some(p) : p \in Prices}
EvalStates == [high : OptPrices, low : OptPrices,
               current_date : {None} \cup {Some(d) : d \in EvalDays}]

EvalInit ==
    /\ config \in ConfigsFor(OneSymbol)
    /\ initial_equity \in InitialEquities
    /\ pc = "eval"
    /\ symIdx = 1
    /\ nbars = 0
    /\ idx = 0
    /\ bar = None
    /\ state \in EvalStates
    /\ position = None
    /\ equity = initial_equity
    /\ trades = <<>>
    /\ equity_curve = <<>>
    /\ last = None
    /\ mt5 = None

\* the IntradayState object passed to evaluate_bar, as the caller finds it
\* after the call: the method assigns to the fields of its parameter and
\* returns that same object
ArgumentAfter(ts, b, st) == EvaluateBar(ts, b, st).state

\* signal, state = strategy.evaluate_bar(ts, bar, state)
EvalStep ==
    /\ pc = "eval"
    /\ \E b \in EvalBars :
         \E r \in {EvaluateBar(b.ts, b, state)} :
            /\ state' = r.state
            /\ last' = Some([bar |-> b, pre |-> state, signal |-> r.signal,
                             arg |-> ArgumentAfter(b.ts, b, state)])
    /\ UNCHANGED <<mt5, config, initial_equity, pc, symIdx, nbars, idx, bar, position,
                   equity, trades, equity_curve>>

EvalNext == EvalStep

SpecEval == EvalInit /\ [][EvalNext]_vars


(***************************************************************************)
(* The two-day scenario: one instrument, two bars on one local date, two   *)
(* on a later one; the only breakout is the last bar's, inside the session *)
(***************************************************************************)
ScenarioBars == 4

ScenarioInit == InitWith(ConfigsFor(OneSymbol))

\* data_loader.load(symbol) returns the four rows; a later local date exists
ScenarioLoad ==
    /\ pc = "load"
    /\ \E b \in EvalBars :
         /\ \E t \in EvalTimestamps :
               t > b.ts /\ LocalDate(t) = LocalDate(b.ts)
         /\ \E t \in EvalTimestamps : LocalDate(t) > LocalDate(b.ts)
         /\ bar' = Some(b)
    /\ nbars' = ScenarioBars
    /\ idx' = 0
    /\ state' = NewIntradayState
    /\ position' = None
    /\ pc' = "loop"
    /\ last' = None
    /\ UNCHANGED <<mt5, config, initial_equity, symIdx, equity, trades, equity_curve>>

\* the shape of the series: which bar may follow the bar at index idx
ScenarioFollows(b, next_bar) ==
    /\ next_bar.ts > b.ts
    /\ idx = 0 => /\ LocalDate(next_bar.ts) = LocalDate(b.ts)
                  /\ next_bar.high <= b.high
                  /\ next_bar.low >= b.low
                  /\ \E t \in EvalTimestamps : LocalDate(t) > LocalDate(b.ts)
    /\ idx = 1 => /\ LocalDate(next_bar.ts) > LocalDate(b.ts)
                  /\ \E t \in EvalTimestamps :
                        /\ t > next_bar.ts
                        /\ LocalDate(t) = LocalDate(next_bar.ts)
                        /\ IsInSession(t, ParseTimeStr(config.session_start),
                                       ParseTimeStr(config.session_end))
    /\ idx = 2 => /\ LocalDate(next_bar.ts) = LocalDate(b.ts)
                  /\ IsInSession(next_bar.ts, ParseTimeStr(config.session_start),
                                 ParseTimeStr(config.session_end))
                  /\ (next_bar.high > b.high) # (next_bar.low < b.low)

\* the inner loop over the scenario's series
ScenarioStep ==
    /\ pc = "loop"
    /\ \E next_bar \in EvalBars :
         /\ ScenarioFollows(Val(bar), next_bar)
         /\ StepWith(next_bar)

ScenarioNext == ScenarioLoad \/ ScenarioStep

SpecScenario == ScenarioInit /\ [][ScenarioNext]_vars


(***************************************************************************)
(* A run over two instruments whose files hold hourly bars of one session  *)
(* day: long enough for an instrument to close two trades                  *)
(***************************************************************************)
\* the largest number of rows of an hourly file
MaxHourly == 5

\* the timestamps of an hourly file: the session's first hours of day 0
HourlyTimes == {ParseTimeStr(<<6, 0>>) + 60 * k : k \in 0..(MaxHourly - 1)}
HourlyBars == {b \in [ts : HourlyTimes, open : Prices, high : Prices, low : Prices] :
                  b.low <= b.open /\ b.open <= b.high}

HourlyInit == InitWith({ZeroCostConfig(TwoSymbols)})

\* data_loader.load(symbol) returns n >= 2 hourly rows, the first at 06:00
HourlyLoad ==
    /\ pc = "load"
    /\ \E n \in 2..MaxHourly, b \in HourlyBars :
         /\ b.ts = ParseTimeStr(<<6, 0>>)
         /\ nbars' = n
         /\ bar' = Some(b)
    /\ idx' = 0
    /\ state' = NewIntradayState
    /\ position' = None
    /\ pc' = "loop"
    /\ last' = None
    /\ UNCHANGED <<mt5, config, initial_equity, symIdx, equity, trades, equity_curve>>

\* the inner loop over the hourly rows
HourlyStep ==
    /\ pc = "loop"
    /\ \E next_bar \in HourlyBars :
         /\ next_bar.ts = Val(bar).ts + 60
         /\ StepWith(next_bar)

HourlyNext == HourlyLoad \/ HourlyStep

SpecHourly == HourlyInit /\ [][HourlyNext]_vars


(***************************************************************************)
(* Configuration loading: src/src/config/schema.py                         *)
(***************************************************************************)
\* a value of the YAML document: a key that is absent, a number, a string
\* that is no number, or null
YamlAbsent == [kind |-> "absent", val |-> R(0)]
YamlNum(x) == [kind |-> "num", val |-> x]
YamlText == [kind |-> "text", val |-> R(0)]
YamlNull == [kind |-> "null", val |-> R(0)]
YamlValues == {YamlAbsent, YamlNum(Frac(1, 10)), YamlText, YamlNull}

\* the documents yaml.safe_load may return, as far as the six fields go
RawConfigs ==
    [sl_pct : YamlValues, tp_pct : YamlValues, equity_pct_per_trade : YamlValues,
     costs : [spread : YamlValues, slippage : YamlValues,
              commission_per_lot : YamlValues]]

\* the defaults dictionary of load_config
ConfigDefaults ==
    [sl_pct |-> YamlNum(Frac(1, 200)), tp_pct |-> YamlNum(Frac(1, 200)),
     equity_pct_per_trade |-> YamlNum(Frac(1, 50)),
     costs |-> [spread |-> YamlNum(R(0)), slippage |-> YamlNum(R(0)),
                commission_per_lot |-> YamlNum(R(0))]]

\* _merge_dict after a bug that lets the defaults take precedence
MergeKeyDefaultWins(default, value) == default

\* _merge_dict on one key: the override's value if the key is present in it
MergeKey(default, value) == IF value.kind = "absent" THEN default ELSE value

\* merged = _merge_dict(defaults, raw), recursing into the costs dictionary
MergeDict(defaults, raw) ==
    [sl_pct |-> MergeKey(defaults.sl_pct, raw.sl_pct),
     tp_pct |-> MergeKey(defaults.tp_pct, raw.tp_pct),
     equity_pct_per_trade |->
         MergeKey(defaults.equity_pct_per_trade, raw.equity_pct_per_trade),
     costs |-> [spread |-> MergeKey(defaults.costs.spread, raw.costs.spread),
                slippage |-> MergeKey(defaults.costs.slippage, raw.costs.slippage),
                commission_per_lot |->
                    MergeKey(defaults.costs.commission_per_lot,
                             raw.costs.commission_per_lot)]]

\* float(x) raises ValueError on a string that is no number, TypeError on None
FloatRaises(v) == v.kind # "num"

\* load_config raises: one of the three float(...) conversions fails
LoadConfigRaises(raw) ==
    LET merged == MergeDict(ConfigDefaults, raw)
    IN  \/ FloatRaises(merged.sl_pct)
        \/ FloatRaises(merged.tp_pct)
        \/ FloatRaises(merged.equity_pct_per_trade)

\* the Config load_config returns; CostsConfig(**merged['costs']) stores the
\* cost values as they are
LoadConfig(raw) ==
    LET merged == MergeDict(ConfigDefaults, raw)
    IN  [sl_pct |-> merged.sl_pct.val,
         tp_pct |-> merged.tp_pct.val,
         equity_pct_per_trade |-> merged.equity_pct_per_trade.val,
         costs |-> merged.costs]

ConfigInit ==
    /\ config = None
    /\ initial_equity \in InitialEquities
    /\ pc = "load_config"
    /\ symIdx = 1
    /\ nbars = 0
    /\ idx = 0
    /\ bar = None
    /\ state = NewIntradayState
    /\ position = None
    /\ equity = initial_equity
    /\ trades = <<>>
    /\ equity_curve = <<>>
    /\ \E raw \in RawConfigs : last = Some([raw |-> raw])
    /\ mt5 = None

\* load_config(path) returns a Config
ConfigLoaded ==
    /\ pc = "load_config"
    /\ ~LoadConfigRaises(Val(last).raw)
    /\ config' = Some(LoadConfig(Val(last).raw))
    /\ pc' = "config_loaded"
    /\ UNCHANGED <<mt5, initial_equity, symIdx, nbars, idx, bar, state, position,
                   equity, trades, equity_curve, last>>

\* load_config(path) is left by an exception
ConfigRaised ==
    /\ pc = "load_config"
    /\ LoadConfigRaises(Val(last).raw)
    /\ pc' = "config_raised"
    /\ UNCHANGED <<mt5, config, initial_equity, symIdx, nbars, idx, bar, state, position,
                   equity, trades, equity_curve, last>>

ConfigNext == ConfigLoaded \/ ConfigRaised

SpecConfig == ConfigInit /\ [][ConfigNext]_vars


(***************************************************************************)
(* Performance metrics: src/src/reporting/metrics.py                       *)
(***************************************************************************)
\* longest trade list and equity curve handed to compute_metrics
MaxTrades == 2
MaxPoints == 2

\* what a float division by zero leaves in place of a value: Python raises
\* ZeroDivisionError there
DivByZero == <<0, 0>>

\* a / b on floats
PyDiv(a, b) ==
    IF b[1] = 0 THEN DivByZero
    ELSE IF b[1] < 0 THEN RMul(RNeg(a), <<b[2], -b[1]>>)
    ELSE RMul(a, <<b[2], b[1]>>)

RECURSIVE SumR(_, _)
\* sum(xs[1..k]) of a list of floats
SumR(xs, k) == IF k = 0 THEN R(0) ELSE RAdd(SumR(xs, k - 1), xs[k])

\* the total return after a change that measures it from the engine's
\* initial equity
TotalReturnFromInitial(curve) ==
    PyDiv(RSub(curve[Len(curve)].equity, initial_equity), initial_equity)

\* the total return after a bug that drops the guard on the starting equity
TotalReturnUnguarded(curve) ==
    PyDiv(RSub(curve[Len(curve)].equity, curve[1].equity), curve[1].equity)

\* total_return = (ending - starting) / starting if starting_equity else 0.0
TotalReturn(curve) ==
    LET starting_equity == curve[1].equity
        ending_equity == curve[Len(curve)].equity
    IN  IF starting_equity[1] # 0
        THEN PyDiv(RSub(ending_equity, starting_equity), starting_equity)
        ELSE R(0)

RECURSIVE PeakAt(_, _)
\* max_equity once the drawdown loop has passed point i
PeakAt(curve, i) ==
    IF i = 0 THEN curve[1].equity
    ELSE IF RGt(curve[i].equity, PeakAt(curve, i - 1)) THEN curve[i].equity
    ELSE PeakAt(curve, i - 1)

\* drawdown = (max_equity - point.equity) / max_equity if max_equity else 0.0
DrawdownTerm(max_equity, eq) ==
    IF max_equity[1] # 0 THEN PyDiv(RSub(max_equity, eq), max_equity) ELSE R(0)

RECURSIVE MaxDrawdown(_, _)
\* max_drawdown once the drawdown loop has passed point i
MaxDrawdown(curve, i) ==
    IF i = 0 THEN R(0)
    ELSE LET d == DrawdownTerm(PeakAt(curve, i), curve[i].equity)
             prev == MaxDrawdown(curve, i - 1)
         IN  IF RGt(d, prev) THEN d ELSE prev

RECURSIVE Returns(_, _)
\* returns: pnl / notional of the first k trades, those of zero notional left out
Returns(trs, k) ==
    IF k = 0 THEN <<>>
    ELSE LET notional == RMul(trs[k].entry_price, trs[k].volume)
         IN  IF notional[1] # 0
             THEN Append(Returns(trs, k - 1), PyDiv(trs[k].pnl, notional))
             ELSE Returns(trs, k - 1)

\* variance = sum((r - mean_ret) ** 2 for r in returns) / len(returns)
Variance(returns) ==
    LET n == Len(returns)
        mean_ret == PyDiv(SumR(returns, n), R(n))
        sq == [i \in 1..n |-> RMul(RSub(returns[i], mean_ret),
                                   RSub(returns[i], mean_ret))]
    IN  PyDiv(SumR(sq, n), R(n))

\* the Sharpe ratio (mean_ret / std_dev) * sqrt(len(returns)) is kept as its
\* sign and its square mean_ret^2 * n / variance, std_dev being sqrt(variance)
SharpeZero == [sign |-> 0, square |-> R(0)]
Sharpe(returns) ==
    IF returns = <<>> THEN SharpeZero
    ELSE LET n == Len(returns)
             mean_ret == PyDiv(SumR(returns, n), R(n))
             variance == Variance(returns)
         IN  IF variance[1] > 0
             THEN [sign |-> IF mean_ret[1] > 0 THEN 1
                            ELSE IF mean_ret[1] < 0 THEN -1 ELSE 0,
                   square |-> PyDiv(RMul(RMul(mean_ret, mean_ret), R(n)), variance)]
             ELSE SharpeZero

\* the pnl of the trades, of the winners and of the losers
Pnls(trs) == [i \in 1..Len(trs) |-> trs[i].pnl]
Wins(trs) == SelectSeq(Pnls(trs), LAMBDA p : p[1] > 0)
Losses(trs) == SelectSeq(Pnls(trs), LAMBDA p : p[1] < 0)

\* win_rate = len(wins) / len(trades) if trades else 0.0
WinRate(trs) ==
    IF trs # <<>> THEN PyDiv(R(Len(Wins(trs))), R(Len(trs))) ELSE R(0)

\* profit_factor = gross_profit / gross_loss if gross_loss > 0 else 0.0
ProfitFactor(trs) ==
    LET gross_profit == SumR(Wins(trs), Len(Wins(trs)))
        gross_loss == IF Losses(trs) # <<>>
                      THEN RNeg(SumR(Losses(trs), Len(Losses(trs))))
                      ELSE R(0)
    IN  IF gross_loss[1] > 0 THEN PyDiv(gross_profit, gross_loss) ELSE R(0)

\* avg_trade = sum(t.pnl for t in trades) / len(trades) if trades else 0.0
AvgTrade(trs) ==
    IF trs # <<>> THEN PyDiv(SumR(Pnls(trs), Len(trs)), R(Len(trs))) ELSE R(0)

\* compute_metrics(trades, equity_curve)
ComputeMetrics(trs, curve) ==
    IF curve = <<>>
    THEN [total_return |-> R(0), max_drawdown |-> R(0), sharpe |-> SharpeZero,
          win_rate |-> R(0), profit_factor |-> R(0), avg_trade |-> R(0),
          exposure_time |-> R(0), num_trades |-> 0]
    ELSE [total_return |-> TotalReturn(curve),
          max_drawdown |-> MaxDrawdown(curve, Len(curve)),
          sharpe |-> Sharpe(Returns(trs, Len(trs))),
          win_rate |-> WinRate(trs),
          profit_factor |-> ProfitFactor(trs),
          avg_trade |-> AvgTrade(trs),
          exposure_time |-> R(0),
          num_trades |-> Len(trs)]

\* the trades and equity points a caller may pass: any values, zero and
\* negative ones included
MetricTrades ==
    [pnl : {R(-1), R(0), R(1)}, entry_price : {R(0), R(1)}, volume : {R(0), R(2)}]
MetricPoints == [timestamp : {0}, equity : {R(-1), R(0), R(1), R(2)}]
SeqsUpTo(S, n) == UNION {[1..k -> S] : k \in 0..n}

MetricsInit ==
    /\ config \in ConfigsFor(OneSymbol)
    /\ initial_equity \in InitialEquities
    /\ pc = "metrics"
    /\ symIdx = 1
    /\ nbars = 0
    /\ idx = 0
    /\ bar = None
    /\ state = NewIntradayState
    /\ position = None
    /\ equity = initial_equity
    /\ trades \in SeqsUpTo(MetricTrades, MaxTrades)
    /\ equity_curve \in SeqsUpTo(MetricPoints, MaxPoints)
    /\ last = None
    /\ mt5 = None

\* metrics = compute_metrics(trades, equity_curve)
MetricsStep ==
    /\ pc = "metrics"
    /\ last' = Some([metrics |-> ComputeMetrics(trades, equity_curve)])
    /\ pc' = "metrics_done"
    /\ UNCHANGED <<mt5, config, initial_equity, symIdx, nbars, idx, bar, state, position,
                   equity, trades, equity_curve>>

MetricsNext == MetricsStep

SpecMetrics == MetricsInit /\ [][MetricsNext]_vars


(***************************************************************************)
(* A backtest and its report: src/src/app.py runs the engine and hands the *)
(* trades and the equity curve to generate_backtest_report, which calls    *)
(* compute_metrics                                                         *)
(***************************************************************************)
\* generate_backtest_report(trades, equity_curve): the summary's metrics
ReportStep ==
    /\ pc = "done"
    /\ last' = Some([metrics |-> ComputeMetrics(trades, equity_curve)])
    /\ pc' = "reported"
    /\ UNCHANGED <<mt5, config, initial_equity, symIdx, nbars, idx, bar, state, position,
                   equity, trades, equity_curve>>

ReportNext == Next \/ ReportStep

\* a configuration with a commission and no spread or slippage: the trades'
\* returns are then plus or minus the stop and target percentages
CommissionConfig(symbols) ==
    [ZeroCostConfig(symbols) EXCEPT !.commission_per_lot = R(1)]

ReportInit ==
    InitWith({ZeroCostConfig(TwoSymbols), CommissionConfig(TwoSymbols)})

SpecReport == ReportInit /\ [][ReportNext]_vars


(***************************************************************************)
(* Paper / live engine: src/src/execution/mt5_exec.py with the state file  *)
(* of src/src/utils/persistence.py                                         *)
(***************************************************************************)
\* passes of the polling loop, counted over all sessions (a session that
\* starts counts its first pass), and sessions (runs of the program)
MaxPolls == 3
MaxSessions == 2

SymbolSet(cfg) == {cfg.symbols[i] : i \in 1..Len(cfg.symbols)}

\* pos.entry_time.isoformat() and pd.Timestamp(text): the text names the instant
IsoFormat(ts) == [iso |-> ts]
ParseTimestamp(text) == text.iso

\* the JSON object _persist_state writes for an open position (no symbol)
PositionToJson(pos) ==
    [side |-> pos.side, volume |-> pos.volume, entry_price |-> pos.entry_price,
     sl_price |-> pos.sl_price, tp_price |-> pos.tp_price,
     entry_time |-> IsoFormat(pos.entry_time)]

\* the Position __init__ recreates from a persisted object
PositionFromJson(sym, j) ==
    [symbol |-> sym, side |-> j.side, volume |-> j.volume,
     entry_price |-> j.entry_price, sl_price |-> j.sl_price,
     tp_price |-> j.tp_price, entry_time |-> ParseTimestamp(j.entry_time)]

\* the dictionary _persist_state hands to save_state
PersistedState(positions) ==
    [positions |-> [s \in DOMAIN positions |->
                       IF positions[s] = None THEN None
                       ELSE Some(PositionToJson(Val(positions[s])))]]

\* __init__ after a bug that starts every session without positions
RestoreNothing(symbols, persisted) == [s \in symbols |-> None]

\* self.positions after __init__: None for every symbol, then the persisted
\* positions that are not None
RestorePositions(symbols, persisted) ==
    [s \in symbols |->
        IF /\ persisted # None
           /\ s \in DOMAIN Val(persisted).positions
           /\ Val(persisted).positions[s] # None
        THEN Some(PositionFromJson(s, Val(Val(persisted).positions[s])))
        ELSE None]

\* the Position recorded for a signal; the volume is left at 0.0
MT5OpenPosition(symbol, signal, next_bar) ==
    LET entry_price == EntryPrice(signal, next_bar.open)
    IN  [symbol |-> symbol, side |-> signal, volume |-> R(0),
         entry_price |-> entry_price,
         sl_price |-> SlPrice(signal, entry_price),
         tp_price |-> TpPrice(signal, entry_price),
         entry_time |-> next_bar.ts]

\* _persist_state after a bug that returns without saving
PersistStateSkipped(m) == m

\* _persist_state(): the call is made and save_state writes the file
PersistState(m) ==
    [m EXCEPT !.file = Some(PersistedState(m.positions)), !.pending = FALSE]

\* MT5Engine before __init__ has run, the state file as it is on disk and
\* the terminal's rates as they were last returned
NewProcess(symbols, file, feed, polls, sessions) ==
    [positions |-> [s \in symbols |-> None],
     states |-> [s \in symbols |-> NewIntradayState],
     last_bar_times |-> [s \in symbols |-> None],
     file |-> file,
     feed |-> feed,
     connected |-> FALSE,
     polls |-> polls,
     sessions |-> sessions,
     pending |-> FALSE,
     exc |-> "none",
     fetched |-> None,
     finally_calls |-> <<>>]

MT5Init ==
    /\ config = CostlyConfig(TwoSymbols)
    /\ initial_equity \in InitialEquities
    /\ pc = "mt5_new"
    /\ symIdx = 1
    /\ nbars = 0
    /\ idx = 0
    /\ bar = None
    /\ state = NewIntradayState
    /\ position = None
    /\ equity = initial_equity
    /\ trades = <<>>
    /\ equity_curve = <<>>
    /\ last = None
    /\ mt5 = NewProcess(SymbolSet(config), None, [s \in SymbolSet(config) |-> None], 1, 1)

MT5Frame ==
    UNCHANGED <<config, initial_equity, nbars, idx, bar, state, position,
                equity, trades, equity_curve, last>>

\* MT5Engine(config): load_state and the restoring loop
MT5Construct ==
    /\ pc = "mt5_new"
    /\ mt5' = [mt5 EXCEPT !.positions = RestorePositions(SymbolSet(config), mt5.file)]
    /\ pc' = "mt5_constructed"
    /\ UNCHANGED symIdx
    /\ MT5Frame

\* run(): data_feed.connect() raises; the error is logged and run returns
MT5ConnectFails ==
    /\ pc = "mt5_constructed"
    /\ pc' = "mt5_returned"
    /\ UNCHANGED <<mt5, symIdx>>
    /\ MT5Frame

\* run(): connected, the intraday states initialised, the polling loop entered
MT5Connect ==
    /\ pc = "mt5_constructed"
    /\ mt5' = [mt5 EXCEPT !.connected = TRUE,
                          !.states = [s \in SymbolSet(config) |-> NewIntradayState]]
    /\ pc' = "mt5_poll"
    /\ symIdx' = 1
    /\ MT5Frame

\* the for loop over config.symbols moves on; after the last symbol, the sleep
MT5NextSymbol ==
    IF symIdx < Len(config.symbols)
    THEN symIdx' = symIdx + 1 /\ pc' = "mt5_poll"
    ELSE symIdx' = symIdx /\ pc' = "mt5_sleep"

\* get_rates returns an empty frame or a single bar: continue
MT5NoBars ==
    /\ pc = "mt5_poll"
    /\ MT5NextSymbol
    /\ UNCHANGED mt5
    /\ MT5Frame

\* get_rates (or anything else in the loop body) raises an exception
MT5LoopRaises ==
    /\ pc = "mt5_poll"
    /\ mt5' = [mt5 EXCEPT !.exc = "error"]
    /\ pc' = "mt5_finally"
    /\ UNCHANGED symIdx
    /\ MT5Frame

\* the rows get_rates may return: bars inside the session and the one at its end
MT5Bars == {b \in Bars : TimeOfDay(b.ts) >= ParseTimeStr(<<6, 0>>)}

\* the complete bars: the loop reads their high and low only, so one open
\* stands for all
MT5CompleteBars == {b \in MT5Bars : b.open = b.low}

\* the forming bars: the loop reads their timestamp and open only
MT5FormingBars == {b \in MT5Bars : b.high = b.open /\ b.low = b.open}

\* the last two rows of a symbol's rates as a poll saw them
FeedRows(b, next_bar) ==
    Some([bar |-> b, next_ts |-> next_bar.ts, next_open |-> next_bar.open])

\* the terminal's history only grows: a poll sees the two rows of the poll
\* before (the forming bar still forming), or a complete bar that is the
\* former forming bar or a later one
FeedFollows(prev, b, next_bar) ==
    IF prev = None THEN TRUE
    ELSE IF b.ts = Val(prev).bar.ts
         THEN /\ b = Val(prev).bar
              /\ next_bar.ts = Val(prev).next_ts
              /\ next_bar.open = Val(prev).next_open
         ELSE b.ts >= Val(prev).next_ts

\* one symbol of one pass: b the most recent complete bar, next_bar the last row
MT5Process ==
    /\ pc = "mt5_poll"
    /\ \E b \in MT5CompleteBars, next_bar \in MT5FormingBars :
         /\ next_bar.ts > b.ts
         /\ FeedFollows(mt5.feed[config.symbols[symIdx]], b, next_bar)
         /\ LET symbol == config.symbols[symIdx]
                pos == mt5.positions[symbol]
                exit_signal == IF pos # None THEN ExitSignal(Val(pos), b) ELSE "none"
                ev == EvaluateBar(b.ts, b, mt5.states[symbol])
                rows == FeedRows(b, next_bar)
                seen == Some([symbol |-> symbol, pos |-> pos,
                              exit_signal |-> exit_signal,
                              signal |-> IF pos = None THEN ev.signal ELSE "skip"])
            IN  IF pos # None
                THEN IF exit_signal # "none"
                     THEN /\ mt5' = [mt5 EXCEPT !.positions[symbol] = None,
                                                !.pending = TRUE,
                                                !.fetched = seen,
                                       !.feed[symbol] = rows]
                          /\ pc' = "mt5_persist"
                          /\ UNCHANGED symIdx
                     ELSE /\ mt5' = [mt5 EXCEPT !.fetched = seen,
                                                !.feed[symbol] = rows]
                          /\ MT5NextSymbol
                ELSE IF ev.signal # "none"
                     THEN /\ mt5' = [mt5 EXCEPT
                                       !.states[symbol] = ev.state,
                                       !.positions[symbol] =
                                           Some(MT5OpenPosition(symbol, ev.signal, next_bar)),
                                       !.pending = TRUE,
                                       !.fetched = seen,
                                       !.feed[symbol] = rows]
                          /\ pc' = "mt5_persist"
                          /\ UNCHANGED symIdx
                     ELSE /\ mt5' = [mt5 EXCEPT !.states[symbol] = ev.state,
                                                !.fetched = seen,
                                       !.feed[symbol] = rows]
                          /\ MT5NextSymbol
    /\ MT5Frame

\* self._persist_state() after a position change, then on to the next symbol
MT5Persist ==
    /\ pc = "mt5_persist"
    /\ mt5' = PersistState(mt5)
    /\ MT5NextSymbol
    /\ MT5Frame

\* self._persist_state() is called and save_state raises (the file cannot be
\* opened): the file stays as it was
MT5PersistRaises ==
    /\ pc = "mt5_persist"
    /\ mt5' = [mt5 EXCEPT !.pending = FALSE, !.exc = "error"]
    /\ pc' = "mt5_finally"
    /\ UNCHANGED symIdx
    /\ MT5Frame

\* Ctrl+C anywhere inside the try block
MT5Interrupt ==
    /\ pc \in {"mt5_poll", "mt5_persist", "mt5_sleep"}
    /\ mt5' = [mt5 EXCEPT !.exc = "interrupt"]
    /\ pc' = "mt5_finally"
    /\ UNCHANGED symIdx
    /\ MT5Frame

\* time.sleep(60), then the next pass of while True
MT5Sleep ==
    /\ pc = "mt5_sleep"
    /\ mt5.polls < MaxPolls
    /\ mt5' = [mt5 EXCEPT !.polls = @ + 1]
    /\ pc' = "mt5_poll"
    /\ symIdx' = 1
    /\ MT5Frame

\* finally: self.data_feed.shutdown()
MT5Shutdown ==
    /\ pc = "mt5_finally"
    /\ mt5' = [mt5 EXCEPT !.connected = FALSE,
                          !.finally_calls = Append(@, "shutdown")]
    /\ pc' = "mt5_final_persist"
    /\ UNCHANGED symIdx
    /\ MT5Frame

\* finally: self._persist_state(); a caught interrupt returns, an exception
\* goes on to the caller
MT5FinalPersist ==
    /\ pc = "mt5_final_persist"
    /\ mt5' = [PersistState(mt5) EXCEPT !.finally_calls = Append(@, "persist")]
    /\ pc' = IF mt5.exc = "interrupt" THEN "mt5_returned" ELSE "mt5_raised"
    /\ UNCHANGED symIdx
    /\ MT5Frame

\* finally: self._persist_state() is called and save_state raises
MT5FinalPersistRaises ==
    /\ pc = "mt5_final_persist"
    /\ mt5' = [mt5 EXCEPT !.pending = FALSE, !.exc = "error",
                          !.finally_calls = Append(@, "persist")]
    /\ pc' = "mt5_raised"
    /\ UNCHANGED symIdx
    /\ MT5Frame

\* the program is started again: a new process, the state file as it was left
MT5Restart ==
    /\ pc \in {"mt5_returned", "mt5_raised"}
    /\ mt5.sessions < MaxSessions
    /\ mt5.polls < MaxPolls
    /\ mt5' = NewProcess(SymbolSet(config), mt5.file, mt5.feed, mt5.polls + 1,
                         mt5.sessions + 1)
    /\ pc' = "mt5_new"
    /\ symIdx' = 1
    /\ MT5Frame

MT5Next ==
    \/ MT5Construct \/ MT5ConnectFails \/ MT5Connect
    \/ MT5NoBars \/ MT5LoopRaises \/ MT5Process
    \/ MT5Persist \/ MT5PersistRaises \/ MT5Interrupt \/ MT5Sleep
    \/ MT5Shutdown \/ MT5FinalPersist \/ MT5FinalPersistRaises \/ MT5Restart

SpecMT5 == MT5Init /\ [][MT5Next]_vars


(***************************************************************************)
(* Properties                                                              *)
(***************************************************************************)
RECURSIVE LedgerEquity(_)
\* initial_equity + (pnl_1 - fees_1) + ... + (pnl_k - fees_k), added in trade order
LedgerEquity(k) ==
    IF k = 0 THEN initial_equity
    ELSE RAdd(LedgerEquity(k - 1), RSub(trades[k].pnl, trades[k].fees))

\* half the spread plus the slippage, written out from the configuration
CostOfFill == RAdd(RMul(config.spread, Frac(1, 2)), config.slippage)

\* the bar's range reaches both the stop and the target of position p
BothReached(p, b) ==
    IF p.side = "long"
    THEN RLe(R(b.low), p.sl_price) /\ RGe(R(b.high), p.tp_price)
    ELSE RGe(R(b.high), p.sl_price) /\ RLe(R(b.low), p.tp_price)

\* the last thing that happened is a loop iteration of the engine
Iterated == pc \in {"load", "loop", "done"} /\ last # None
LastTrade == trades[Len(trades)]

\* C1: the running equity, and the equity of the k-th EquityPoint, equal
\* initial_equity plus the (pnl - fees) of the first k trades, and equity
\* changes only in a step that appends a trade.
C1_EquityIsLedger ==
    /\ [](/\ equity = LedgerEquity(Len(trades))
          /\ \A k \in 1..Len(equity_curve) :
                k <= Len(trades) /\ equity_curve[k].equity = LedgerEquity(k))
    /\ [][equity' # equity =>
            /\ Len(trades') = Len(trades) + 1
            /\ position # None
            /\ ExitSignal(Val(position), Val(bar)) # "none"]_vars

\* C1 witness: two trades closed on different instruments, fees charged
C1_Witness ==
    /\ Len(trades) = 2
    /\ trades[1].symbol # trades[2].symbol
    /\ trades[1].fees # R(0)
    /\ equity # initial_equity
    /\ equity = equity_curve[2].equity

\* C2: a bar that reaches both the stop and the target of the open position
\* closes it with reason 'sl', priced from the stop level.
C2_StopBeforeTarget ==
    (Iterated /\ Val(last).pos # None
        /\ BothReached(Val(Val(last).pos), Val(last).bar))
    => /\ Val(last).exit_signal = "sl"
       /\ Len(trades) >= 1
       /\ LastTrade.reason = "sl"
       /\ LastTrade.exit_time = Val(last).bar.ts
       /\ LastTrade.entry_time = Val(Val(last).pos).entry_time
       /\ LastTrade.exit_price =
            IF LastTrade.side = "long"
            THEN RSub(Val(Val(last).pos).sl_price, CostOfFill)
            ELSE RAdd(Val(Val(last).pos).sl_price, CostOfFill)

\* C2 witness: a short position whose bar reached stop and target, closed 'sl'
C2_Witness ==
    /\ Iterated /\ Val(last).pos # None
    /\ Val(Val(last).pos).side = "short"
    /\ BothReached(Val(Val(last).pos), Val(last).bar)
    /\ LastTrade.reason = "sl"

\* C3: a position that is open and not closed on the bar is kept as it is
\* and no signal is evaluated; a new position appears only when none was open
\* at that point (none at all, or closed on this bar) and the signal is long
\* or short.
C3_OnePositionNeverReplaced ==
    Iterated =>
      /\ (Val(last).pos # None /\ Val(last).exit_signal = "none")
            => (position = Val(last).pos /\ Val(last).signal = "skip")
      /\ (position # None /\ position # Val(last).pos)
            => /\ Val(last).pos = None \/ Val(last).exit_signal # "none"
               /\ Val(last).signal \in {"long", "short"}
               /\ Val(position).side = Val(last).signal
      /\ (Val(last).signal \in {"none", "skip"} /\ Val(last).exit_signal = "none")
            => position = Val(last).pos

\* C3 witness: a position closed and a new one opened in the same iteration
C3_Witness ==
    /\ Iterated /\ Val(last).pos # None
    /\ Val(last).exit_signal # "none"
    /\ position # None

\* C4: there are as many EquityPoints as Trades, the k-th carrying the k-th
\* trade's exit_time, and the curve grows only in an iteration that closes a
\* position.
C4_OnePointPerTrade ==
    /\ [](/\ Len(equity_curve) = Len(trades)
          /\ \A k \in 1..Len(trades) :
                equity_curve[k].timestamp = trades[k].exit_time)
    /\ [][equity_curve' # equity_curve =>
            /\ position # None
            /\ ExitSignal(Val(position), Val(bar)) # "none"
            /\ Len(equity_curve') = Len(equity_curve) + 1
            /\ Len(trades') = Len(trades) + 1]_vars

\* C4 witness: one point so far, then a bar processed with a position open
\* and not closed
C4_Witness ==
    /\ Iterated /\ Val(last).pos # None
    /\ Val(last).exit_signal = "none"
    /\ Len(equity_curve) = 1
    /\ Len(trades) = 1

\* C5: a bar whose high exceeds the running high and whose low is below the
\* running low of the state passed in never yields long or short.
C5_BothTriggersNoSignal ==
    (pc = "eval" /\ last # None
        /\ Val(last).pre.high # None /\ Val(last).pre.low # None
        /\ Val(last).bar.high > Val(Val(last).pre.high)
        /\ Val(last).bar.low < Val(Val(last).pre.low))
    => Val(last).signal = "none"

\* C5 witness: both triggers on a bar of the state's day, inside the session
C5_Witness ==
    /\ pc = "eval" /\ last # None
    /\ Val(last).pre.current_date = Some(LocalDate(Val(last).bar.ts))
    /\ Val(last).pre.high # None /\ Val(last).pre.low # None
    /\ Val(last).bar.high > Val(Val(last).pre.high)
    /\ Val(last).bar.low < Val(Val(last).pre.low)
    /\ TimeOfDay(Val(last).bar.ts) = 1140
    /\ Val(last).signal = "none"

\* C6: evaluate_bar returns long or short only for a bar whose local time of
\* day t satisfies session_start <= t < session_end.
C6_NoSignalOutsideSession ==
    (pc = "eval" /\ last # None /\ Val(last).signal # "none")
    => /\ 60 * config.session_start[1] + config.session_start[2]
             <= Val(last).bar.ts % 1440
       /\ Val(last).bar.ts % 1440
             < 60 * config.session_end[1] + config.session_end[2]

\* C6 witness: a bar exactly at session_start signals
C6_Witness ==
    /\ pc = "eval" /\ last # None
    /\ Val(last).signal = "long"
    /\ Val(last).bar.ts % 1440 = 60 * config.session_start[1] + config.session_start[2]

\* C7: a position opened from a signal on bar i is priced at bar i+1's open
\* plus (long) or minus (short) spread/2 + slippage, with bar i+1's timestamp
\* as entry_time.
C7_EntryAtNextOpen ==
    (Iterated /\ Val(last).signal \in {"long", "short"})
    => /\ position # None
       /\ Val(position).side = Val(last).signal
       /\ Val(position).entry_time = Val(bar).ts
       /\ Val(bar).ts > Val(last).bar.ts
       /\ Val(position).entry_price =
            IF Val(last).signal = "long"
            THEN RAdd(R(Val(bar).open), CostOfFill)
            ELSE RSub(R(Val(bar).open), CostOfFill)

\* C7 witness: a short opened under non-zero spread and slippage
C7_Witness ==
    /\ Iterated /\ Val(last).signal = "short"
    /\ config.spread # R(0) /\ config.slippage # R(0)
    /\ Val(position).entry_price = RSub(R(Val(bar).open), R(1))

\* C8: on every close the exit price is the breached level of the position
\* less (long) or plus (short) spread/2 + slippage, whatever the bar's prices.
C8_ExitAtLevel ==
    (Iterated /\ Val(last).exit_signal # "none")
    => /\ Len(trades) >= 1
       /\ LastTrade.reason = Val(last).exit_signal
       /\ LastTrade.exit_price =
            LET p == Val(Val(last).pos)
                level == IF Val(last).exit_signal = "sl" THEN p.sl_price ELSE p.tp_price
            IN  IF p.side = "long"
                THEN RSub(level, CostOfFill)
                ELSE RAdd(level, CostOfFill)

\* C8 witness: a short stopped out by a bar lying entirely above its stop
C8_Witness ==
    /\ Iterated /\ Val(last).exit_signal = "sl"
    /\ Val(Val(last).pos).side = "short"
    /\ RGt(R(Val(last).bar.low), Val(Val(last).pos).sl_price)
    /\ LastTrade.exit_price = RAdd(Val(Val(last).pos).sl_price, CostOfFill)

\* C9: every trade's pnl is (exit - entry) * volume for a long and
\* (entry - exit) * volume for a short, its fees are commission_per_lot *
\* volume, and its EquityPoint is the previous equity plus pnl minus fees.
C9_PnlAndFees ==
    \A k \in 1..Len(trades) :
        LET t == trades[k]
            before == IF k = 1 THEN initial_equity ELSE equity_curve[k - 1].equity
        IN  /\ t.pnl = IF t.side = "long"
                       THEN RMul(RSub(t.exit_price, t.entry_price), t.volume)
                       ELSE RMul(RSub(t.entry_price, t.exit_price), t.volume)
            /\ t.fees = RMul(config.commission_per_lot, t.volume)
            /\ k <= Len(equity_curve)
            /\ equity_curve[k].equity = RSub(RAdd(before, t.pnl), t.fees)

\* C9 witness: a short trade with a non-zero pnl and non-zero fees
C9_Witness ==
    /\ Len(trades) >= 1
    /\ LastTrade.side = "short"
    /\ LastTrade.pnl # R(0)
    /\ LastTrade.fees # R(0)

\* C10: stop and target are the entry fill price times (1 -/+ pct); with
\* sl_pct = tp_pct = 1/10, no costs and an open of 10 the levels are 9 and 11.
C10_LevelsFromEntryFill ==
    (pc \in {"load", "loop", "done"} /\ position # None) =>
        LET p == Val(position)
        IN  /\ p.sl_price = IF p.side = "long"
                            THEN RMul(p.entry_price, RSub(R(1), config.sl_pct))
                            ELSE RMul(p.entry_price, RAdd(R(1), config.sl_pct))
            /\ p.tp_price = IF p.side = "long"
                            THEN RMul(p.entry_price, RAdd(R(1), config.tp_pct))
                            ELSE RMul(p.entry_price, RSub(R(1), config.tp_pct))
            /\ (/\ config.sl_pct = Frac(1, 10) /\ config.tp_pct = Frac(1, 10)
                /\ config.spread = R(0) /\ config.slippage = R(0)
                /\ p.entry_time = Val(bar).ts /\ Val(bar).open = 10)
               => /\ p.entry_price = R(10)
                  /\ p.sl_price = IF p.side = "long" THEN R(9) ELSE R(11)
                  /\ p.tp_price = IF p.side = "long" THEN R(11) ELSE R(9)

\* C10 witness: a long opened under costs, so that the fill differs from the open
C10_Witness ==
    /\ Iterated /\ Val(last).signal = "long"
    /\ position # None
    /\ Val(position).entry_price # R(Val(bar).open)
    /\ Val(position).sl_price = RMul(Val(position).entry_price, Frac(9, 10))

\* C11: threading one state through evaluate_bar, a bar of the state's own
\* local date never lowers state.high nor raises state.low (they become the
\* max / min with the bar); a bar of another local date resets both, so that
\* after the call they are the bar's own high and low and current_date is
\* the bar's date.
C11_LevelsMonotoneThenReset ==
    (pc = "eval" /\ last # None) =>
        LET l == Val(last)
            pre == l.pre
            d == LocalDate(l.bar.ts)
        IN  /\ state.current_date = Some(d)
            /\ state.high # None /\ state.low # None
            /\ pre.current_date = Some(d) =>
                  /\ pre.high # None =>
                        /\ Val(state.high) >= Val(pre.high)
                        /\ Val(state.high) \in {Val(pre.high), l.bar.high}
                  /\ pre.low # None =>
                        /\ Val(state.low) <= Val(pre.low)
                        /\ Val(state.low) \in {Val(pre.low), l.bar.low}
                  /\ Val(state.high) >= l.bar.high
                  /\ Val(state.low) <= l.bar.low
            /\ pre.current_date # Some(d) =>
                  /\ state.high = Some(l.bar.high)
                  /\ state.low = Some(l.bar.low)

\* C11 witness: a bar of the next local date arrives with a lower high and a
\* higher low than the levels of the day before, and both levels are reset
C11_Witness ==
    /\ pc = "eval" /\ last # None
    /\ Val(last).pre.current_date # None
    /\ Val(Val(last).pre.current_date) < LocalDate(Val(last).bar.ts)
    /\ Val(last).pre.high # None /\ Val(last).pre.low # None
    /\ Val(last).bar.high < Val(Val(last).pre.high)
    /\ Val(last).bar.low > Val(Val(last).pre.low)
    /\ state.high = Some(Val(last).bar.high)
    /\ state.low = Some(Val(last).bar.low)

\* C12: after the engine loop has processed a bar, the IntradayState it owns
\* holds that bar's local date and the highest high and lowest low of every
\* bar of that date the loop has processed, whether or not a position was
\* open while the bar was processed.
C12_LevelsCoverEveryBar ==
    Iterated =>
        /\ state.current_date = Some(Val(last).day.date)
        /\ state.high = Some(Val(last).day.high)
        /\ state.low = Some(Val(last).day.low)

\* the bar's range reaches the stop, or the target, of position p
StopReached(p, b) ==
    IF p.side = "long" THEN RLe(R(b.low), p.sl_price) ELSE RGe(R(b.high), p.sl_price)
TargetReached(p, b) ==
    IF p.side = "long" THEN RGe(R(b.high), p.tp_price) ELSE RLe(R(b.low), p.tp_price)

\* C13: a position opened while bar i is processed (priced at the open of
\* bar i+1) is first exit-checked against bar i+1, its own entry bar, at the
\* top of the next iteration: the bar it is opened for is the next one the
\* loop processes, every iteration of the loop checks the open position
\* against the bar it processes, a stop or target reached by the entry bar
\* closes the position there, and no check is made against a bar before the
\* entry bar (bar i).
C13_FirstCheckOnEntryBar ==
    /\ [](Iterated =>
            /\ Val(last).signal \in {"long", "short"} =>
                  /\ position # None
                  /\ Val(position).entry_time = Val(bar).ts
            /\ Val(last).pos # None =>
                  LET p == Val(Val(last).pos)
                      b == Val(last).bar
                  IN  /\ b.ts >= p.entry_time
                      /\ StopReached(p, b) => Val(last).exit_signal = "sl"
                      /\ (~StopReached(p, b) /\ TargetReached(p, b))
                            => Val(last).exit_signal = "tp"
                      /\ Val(last).exit_signal # "none" =>
                            /\ LastTrade.entry_time = p.entry_time
                            /\ LastTrade.exit_time = b.ts)
    /\ [][(pc = "loop" /\ position # None) =>
            /\ last' # None
            /\ Val(last').pos = position
            /\ Val(last').bar = Val(bar)]_vars

\* C13 witness: a position is closed by the bar it was entered on
C13_Witness ==
    /\ Iterated
    /\ Val(last).pos # None
    /\ Val(last).bar.ts = Val(Val(last).pos).entry_time
    /\ Val(last).exit_signal # "none"
    /\ Len(trades) >= 1
    /\ LastTrade.exit_time = LastTrade.entry_time

\* C13 as stated: a position is exit-checked only against bars later than
\* its entry bar (bar i+2 onwards), never against bar i or bar i+1.
C13_FirstCheckAfterEntryBar ==
    (Iterated /\ Val(last).pos # None) =>
        Val(last).bar.ts > Val(Val(last).pos).entry_time

\* C14: for one instrument with two bars on one day and two on a later day,
\* whose only breakout is the second bar of day 2 inside the session, run()
\* returns no Trade and no EquityPoint and the final equity is
\* initial_equity: the breaking bar is the last bar of the series, which the
\* loop never evaluates, so no position is ever opened.
C14_LastBarBreakoutNoTrade ==
    /\ trades = <<>>
    /\ equity_curve = <<>>
    /\ equity = initial_equity
    /\ position = None
    /\ pc = "done" => idx = ScenarioBars - 1

\* C14 witness: the run is over and its last bar breaks the high of day 2
\* inside the session
C14_Witness ==
    /\ pc = "done"
    /\ nbars = ScenarioBars
    /\ LocalDate(Val(bar).ts) = LocalDate(Val(last).bar.ts)
    /\ LocalDate(Val(bar).ts) > 0
    /\ IsInSession(Val(bar).ts, ParseTimeStr(config.session_start),
                   ParseTimeStr(config.session_end))
    /\ LongTrigger(Val(bar), state)
    /\ ~ShortTrigger(Val(bar), state)
    /\ trades = <<>>

\* C14 as stated: the run over the scenario returns exactly one Trade and
\* one EquityPoint, and ends with initial_equity + pnl - fees of that trade.
C14_OneTradeOnePoint ==
    pc = "done" =>
        /\ Len(trades) = 1
        /\ Len(equity_curve) = 1
        /\ equity = RAdd(initial_equity, RSub(trades[1].pnl, trades[1].fees))

\* C15: every position the engine opens has an entry_time whose local
\* time-of-day t satisfies session_start <= t < session_end.
C15_EntryTimeInSession ==
    (pc \in {"load", "loop", "done"} /\ position # None) =>
        /\ ParseTimeStr(config.session_start) <= TimeOfDay(Val(position).entry_time)
        /\ TimeOfDay(Val(position).entry_time) < ParseTimeStr(config.session_end)

\* C16: equity is one running value shared by the instruments in
\* configuration order: the volume of every position opened is
\* E * equity_pct_per_trade / (the next bar's raw open), where E is
\* initial_equity plus the (pnl - fees) of every trade closed so far in the
\* run, trades of earlier instruments and a close made earlier in the same
\* iteration included.
C16_VolumeFromRunningEquity ==
    (Iterated /\ Val(last).signal \in {"long", "short"}) =>
        /\ position # None
        /\ Val(position).volume =
              RDiv(RMul(LedgerEquity(Len(trades)), config.equity_pct_per_trade),
                   R(Val(bar).open))
        /\ Val(last).exit_signal # "none" =>
              /\ Len(trades) >= 1
              /\ LastTrade.exit_time = Val(last).bar.ts

\* C16 witness: on the second instrument a position is closed and another
\* opened in one iteration, after a trade of the first instrument, under
\* costs, so that the fill differs from the raw open
C16_Witness ==
    /\ Iterated
    /\ Val(last).signal \in {"long", "short"}
    /\ Val(last).exit_signal # "none"
    /\ Len(trades) = 2
    /\ trades[1].symbol = "EURUSD"
    /\ trades[2].symbol = "GBPUSD"
    /\ position # None
    /\ Val(position).symbol = "GBPUSD"
    /\ Val(position).entry_price # R(Val(bar).open)
    /\ LedgerEquity(2) # LedgerEquity(1)
    /\ LedgerEquity(1) # initial_equity
    /\ Val(position).volume # RDiv(RMul(equity, config.equity_pct_per_trade),
                                   Val(position).entry_price)

\* C17: when the bar sequence loaded for an instrument has fewer than two
\* bars, the instrument adds no Trade and no EquityPoint, the running equity
\* is unchanged, no error is raised, and the run goes on with the next
\* configured instrument (or ends normally after the last one); a sequence
\* of two or more bars enters the bar loop.
C17_ShortSequenceSkipped ==
    [][(pc = "load" /\ pc' # "raised") =>
          IF nbars' < 2
          THEN /\ trades' = trades
               /\ equity_curve' = equity_curve
               /\ equity' = equity
               /\ symIdx' = symIdx + 1
               /\ pc' = IF symIdx < Len(config.symbols) THEN "load" ELSE "done"
          ELSE pc' = "loop" /\ symIdx' = symIdx]_vars

\* C17 witness: the second instrument had fewer than two bars; the trade and
\* the equity of the first instrument are what the run ends with
C17_Witness ==
    /\ pc = "done"
    /\ symIdx = 3
    /\ nbars < 2
    /\ Len(trades) = 1
    /\ trades[1].symbol = "EURUSD"
    /\ Len(equity_curve) = 1
    /\ equity # initial_equity
    /\ equity = LedgerEquity(1)

\* C18: a missing bar sequence is fatal for its instrument only: run() is
\* never left by the loader's exception, it goes on with the instruments
\* listed after the failing one and returns the trades and equity points of
\* the others.
C18_MissingSequenceNotFatalToRun == pc # "raised"

\* the fields load_config converts with float(), and the cost fields
PctFields == {"sl_pct", "tp_pct", "equity_pct_per_trade"}
CostFields == {"spread", "slippage", "commission_per_lot"}

\* C19: load_config gives a missing sl_pct, tp_pct, equity_pct_per_trade,
\* spread, slippage or commission_per_lot its default (0.005, 0.005, 0.02,
\* 0, 0, 0) and raises no error for it; a present value overrides the
\* default; it raises exactly when a present sl_pct, tp_pct or
\* equity_pct_per_trade is no number; a cost field that is present is
\* stored as given, number or not.
C19_MissingDefaultedBadPctRaises ==
    LET raw == Val(last).raw
    IN  /\ pc = "config_loaded" =>
              /\ \A f \in PctFields :
                    /\ raw[f].kind \in {"absent", "num"}
                    /\ Val(config)[f] = IF raw[f].kind = "absent"
                                        THEN ConfigDefaults[f].val
                                        ELSE raw[f].val
              /\ \A f \in CostFields :
                    Val(config).costs[f] = IF raw.costs[f].kind = "absent"
                                           THEN YamlNum(R(0))
                                           ELSE raw.costs[f]
              /\ raw.sl_pct.kind = "absent" => Val(config).sl_pct = Frac(1, 200)
              /\ raw.tp_pct.kind = "absent" => Val(config).tp_pct = Frac(1, 200)
              /\ raw.equity_pct_per_trade.kind = "absent"
                    => Val(config).equity_pct_per_trade = Frac(1, 50)
        /\ pc = "config_raised" =>
              \E f \in PctFields : raw[f].kind \in {"text", "null"}

\* C19 witness: a Config is returned for a document that lacks sl_pct and
\* spread and carries a commission_per_lot that is no number
C19_Witness ==
    /\ pc = "config_loaded"
    /\ Val(last).raw.sl_pct = YamlAbsent
    /\ Val(last).raw.costs.spread = YamlAbsent
    /\ Val(last).raw.costs.commission_per_lot = YamlText
    /\ Val(last).raw.tp_pct = YamlNum(Frac(1, 10))
    /\ Val(config).sl_pct = Frac(1, 200)
    /\ Val(config).tp_pct = Frac(1, 10)
    /\ Val(config).costs.spread = YamlNum(R(0))
    /\ Val(config).costs.commission_per_lot = YamlText

\* C19 as stated: load_config returns a Config only when all six fields are
\* present and valid; a missing or invalid one is an error, never defaulted.
C19_MissingOrInvalidIsFatal ==
    pc = "config_loaded" =>
        /\ \A f \in PctFields : Val(last).raw[f].kind = "num"
        /\ \A f \in CostFields : Val(last).raw.costs[f].kind = "num"

\* C20: compute_metrics divides by zero for no trade list and equity curve:
\* total_return is 0 when the starting equity is 0, a drawdown term is 0
\* when the running peak is 0, sharpe is 0 when there are no usable returns
\* or their variance is 0, profit_factor is 0 when there are no losing
\* trades, win_rate and avg_trade are 0 when there are no trades, all
\* metrics are 0 for an empty equity curve, and trades of zero notional are
\* left out of the returns.
C20_NoDivisionByZero ==
    pc = "metrics_done" =>
        LET m == Val(last).metrics
            returns == Returns(trades, Len(trades))
        IN  /\ m.total_return # DivByZero
            /\ m.max_drawdown # DivByZero
            /\ m.sharpe.square # DivByZero
            /\ m.win_rate # DivByZero
            /\ m.profit_factor # DivByZero
            /\ m.avg_trade # DivByZero
            /\ \A i \in 1..Len(returns) : returns[i] # DivByZero
            /\ equity_curve = <<>> =>
                  /\ m.total_return = R(0) /\ m.max_drawdown = R(0)
                  /\ m.sharpe = SharpeZero /\ m.win_rate = R(0)
                  /\ m.profit_factor = R(0) /\ m.avg_trade = R(0)
                  /\ m.exposure_time = R(0) /\ m.num_trades = 0
            /\ equity_curve # <<>> =>
                  /\ equity_curve[1].equity = R(0) => m.total_return = R(0)
                  /\ \A i \in 1..Len(equity_curve) :
                        LET peak == PeakAt(equity_curve, i)
                            term == DrawdownTerm(peak, equity_curve[i].equity)
                        IN  /\ term # DivByZero
                            /\ peak = R(0) => term = R(0)
                  /\ (returns = <<>> \/ Variance(returns) = R(0))
                        => m.sharpe = SharpeZero
                  /\ (\A i \in 1..Len(trades) : ~RLt(trades[i].pnl, R(0)))
                        => m.profit_factor = R(0)
                  /\ trades = <<>> => m.win_rate = R(0) /\ m.avg_trade = R(0)
                  /\ Len(returns) = Cardinality({i \in 1..Len(trades) :
                        RMul(trades[i].entry_price, trades[i].volume) # R(0)})

\* C20 witness: a curve that starts at equity 0 and moves on, with a trade of
\* zero notional, a winner and no loser
C20_Witness ==
    /\ pc = "metrics_done"
    /\ Len(equity_curve) = 2
    /\ equity_curve[1].equity = R(0)
    /\ equity_curve[2].equity = R(-1)
    /\ Len(trades) = 2
    /\ RMul(trades[1].entry_price, trades[1].volume) = R(0)
    /\ trades[2].pnl = R(1)
    /\ RMul(trades[2].entry_price, trades[2].volume) # R(0)
    /\ Val(last).metrics.total_return = R(0)
    /\ Val(last).metrics.profit_factor = R(0)
    /\ Val(last).metrics.sharpe = SharpeZero
    /\ Val(last).metrics.win_rate = Frac(1, 2)

\* the places of MT5Engine.run inside the polling loop
MT5InLoop == pc \in {"mt5_poll", "mt5_persist", "mt5_sleep"}
MT5Ended == pc \in {"mt5_returned", "mt5_raised"}

\* C21: in MT5Engine.run every opening and every closing of a symbol's
\* position is followed by a _persist_state call before the next symbol is
\* processed, and once the polling loop has started it is left only through
\* the finally block, where the data feed is shut down first and
\* _persist_state is called after it, whether the loop ended by an interrupt
\* or by an exception.
C21_PersistAfterChangeAndOnExit ==
    /\ []((pc \in {"mt5_poll", "mt5_sleep"}) => ~mt5.pending)
    /\ [][(MT5InLoop /\ mt5'.positions # mt5.positions) =>
            /\ mt5'.pending
            /\ pc' = "mt5_persist"]_vars
    /\ [][(MT5InLoop /\ ~MT5InLoop') => pc' = "mt5_finally"]_vars
    /\ []((MT5Ended /\ mt5.exc # "none") =>
            /\ mt5.finally_calls = <<"shutdown", "persist">>
            /\ ~mt5.connected
            /\ ~mt5.pending)
    /\ []((pc = "mt5_returned" /\ mt5.exc = "interrupt") =>
            mt5.file = Some(PersistedState(mt5.positions)))

\* C21 witness: an interrupt has ended the loop while a position is open; the
\* feed was shut down, then the state persisted, and the file holds the position
C21_Witness ==
    /\ pc = "mt5_returned"
    /\ mt5.exc = "interrupt"
    /\ mt5.finally_calls = <<"shutdown", "persist">>
    /\ mt5.positions["GBPUSD"] # None
    /\ mt5.positions["EURUSD"] = None
    /\ mt5.fetched # None
    /\ Val(mt5.fetched).exit_signal # "none"
    /\ mt5.file = Some(PersistedState(mt5.positions))

\* C22: a symbol whose persisted record holds an open position starts the
\* new session with that position open (same side, volume, entry, stop,
\* target and entry time), and during a session an open position is only
\* ever replaced by None, by the exit check of its own symbol: no new
\* position is opened for the symbol before the restored one is closed.
C22_ResumeWithoutDuplicates ==
    /\ [](pc = "mt5_constructed" =>
            \A s \in SymbolSet(config) :
                (mt5.file # None /\ Val(mt5.file).positions[s] # None) =>
                    /\ mt5.positions[s] # None
                    /\ Val(mt5.positions[s]).symbol = s
                    /\ PositionToJson(Val(mt5.positions[s]))
                          = Val(Val(mt5.file).positions[s])
                    /\ Val(mt5.positions[s]).entry_time
                          = Val(Val(mt5.file).positions[s]).entry_time.iso)
    /\ [][\A s \in SymbolSet(config) :
            (/\ pc' # "mt5_new"
             /\ mt5.positions[s] # None
             /\ mt5'.positions[s] # mt5.positions[s]) =>
                /\ mt5'.positions[s] = None
                /\ mt5'.fetched # None
                /\ Val(mt5'.fetched).symbol = s
                /\ Val(mt5'.fetched).pos = mt5.positions[s]
                /\ Val(mt5'.fetched).exit_signal # "none"]_vars

\* C22 witness: in the second session a pass has processed EURUSD with the
\* position restored from the state file, which stays open
C22_Witness ==
    /\ pc = "mt5_poll"
    /\ mt5.sessions = 2
    /\ symIdx = 2
    /\ mt5.fetched # None
    /\ Val(mt5.fetched).symbol = "EURUSD"
    /\ Val(mt5.fetched).pos # None
    /\ Val(mt5.fetched).exit_signal = "none"
    /\ Val(mt5.fetched).signal = "skip"
    /\ mt5.positions["EURUSD"] = Val(mt5.fetched).pos
    /\ mt5.file # None
    /\ Val(mt5.file).positions["EURUSD"] # None

\* the last evaluate_bar call was made on a bar inside the session
EvalInSession ==
    IsInSession(Val(last).bar.ts, ParseTimeStr(config.session_start),
                ParseTimeStr(config.session_end))

\* the levels the last evaluate_bar call compared the bar with: those of the
\* state passed in if it is of the bar's local date, none otherwise
LevelBefore(level) ==
    IF Val(last).pre.current_date = Some(LocalDate(Val(last).bar.ts))
    THEN Val(last).pre[level] ELSE None

\* C23: evaluate_bar compares the bar with the levels as they were before
\* the bar is folded in, strictly: for an in-session bar the signal is long
\* iff the high is set and bar.high > high and not (the low is set and
\* bar.low < low), short symmetrically, none otherwise; a high or low that
\* only equals its level does not trigger.
C23_StrictTriggersOnPriorLevels ==
    (pc = "eval" /\ last # None /\ EvalInSession) =>
        LET b == Val(last).bar
            h == LevelBefore("high")
            l == LevelBefore("low")
            above == h # None /\ b.high > Val(h)
            below == l # None /\ b.low < Val(l)
        IN  /\ Val(last).signal = "long" <=> (above /\ ~below)
            /\ Val(last).signal = "short" <=> (below /\ ~above)
            /\ Val(last).signal = "none" <=> (above <=> below)
            /\ (h # None /\ b.high = Val(h) /\ ~below) => Val(last).signal = "none"
            /\ (l # None /\ b.low = Val(l) /\ ~above) => Val(last).signal = "none"

\* C23 witness: an in-session bar whose high equals the day's high, and is
\* above the level only once the bar is folded in, gives no signal
C23_Witness ==
    /\ pc = "eval" /\ last # None /\ EvalInSession
    /\ LevelBefore("high") = Some(Val(last).bar.high)
    /\ LevelBefore("low") # None
    /\ Val(last).bar.low > Val(LevelBefore("low"))
    /\ Val(last).signal = "none"
    /\ state.high = Some(Val(last).bar.high)

\* C24: evaluate_bar returns no signal for a bar whose local date differs
\* from the current_date of the state passed in, an unset date included,
\* whatever high and low that state held: the day reset precedes the triggers.
C24_NoSignalOnDayChange ==
    (pc = "eval" /\ last # None
        /\ Val(last).pre.current_date # Some(LocalDate(Val(last).bar.ts)))
    => Val(last).signal = "none"

\* C24 witness: an in-session bar of the next day rises above the high the
\* state held from the day before, and gives no signal
C24_Witness ==
    /\ pc = "eval" /\ last # None /\ EvalInSession
    /\ Val(last).pre.current_date # None
    /\ Val(Val(last).pre.current_date) < LocalDate(Val(last).bar.ts)
    /\ Val(last).pre.high # None
    /\ Val(last).bar.high > Val(Val(last).pre.high)
    /\ Val(last).pre.low # None
    /\ Val(last).bar.low >= Val(Val(last).pre.low)
    /\ Val(last).signal = "none"

C26_CloseThenEvaluateSameBar ==
    [][(/\ pc = "loop" /\ position # None
        /\ (StopReached(Val(position), Val(bar))
            \/ TargetReached(Val(position), Val(bar)))) =>
          LET b == Val(bar)
              ev == EvaluateBar(b.ts, b, state)
              t == trades'[Len(trades')]
          IN  /\ Len(trades') = Len(trades) + 1
              /\ equity' = RAdd(equity, RSub(t.pnl, t.fees))
              /\ Val(last').signal = ev.signal
              /\ state' = ev.state
              /\ state'.current_date = Some(LocalDate(b.ts))
              /\ Val(state'.high) >= b.high /\ Val(state'.low) <= b.low
              /\ IF ev.signal = "none"
                 THEN position' = None
                 ELSE /\ position' # None
                      /\ Val(position').side = ev.signal
                      /\ Val(position').entry_time = Val(bar').ts
                      /\ Val(position').entry_price
                            = IF ev.signal = "long"
                              THEN RAdd(R(Val(bar').open), CostOfFill)
                              ELSE RSub(R(Val(bar').open), CostOfFill)
                      /\ Val(position').volume
                            = RDiv(RMul(equity', config.equity_pct_per_trade),
                                   R(Val(bar').open))]_vars

\* C26 witness: one iteration closed a position at a loss or gain and opened
\* the next one, sized from the changed equity
C26_Witness ==
    /\ Iterated
    /\ Val(last).pos # None
    /\ Val(last).exit_signal # "none"
    /\ Val(last).signal \in {"long", "short"}
    /\ position # None
    /\ Val(position).entry_time > Val(last).bar.ts
    /\ Len(trades) = 1
    /\ equity # initial_equity
    /\ Val(position).volume
          # RDiv(RMul(initial_equity, config.equity_pct_per_trade), R(Val(bar).open))

\* the state evaluate_bar is to return, written from the state passed in and
\* the bar's local date, high and low alone
LevelsFrom(pre, date, high, low) ==
    LET h == IF pre.current_date = Some(date) THEN pre.high ELSE None
        l == IF pre.current_date = Some(date) THEN pre.low ELSE None
    IN  [high |-> IF h = None \/ high > Val(h) THEN Some(high) ELSE h,
         low |-> IF l = None \/ low < Val(l) THEN Some(low) ELSE l,
         current_date |-> Some(date)]

\* C27: the state evaluate_bar returns is a function of the state passed in
\* and of the bar's local date, high and low: the same whether or not a
\* signal fired and whether or not the bar is inside the session.
C27_StateIndependentOfSignalAndSession ==
    (pc = "eval" /\ last # None) =>
        state = LevelsFrom(Val(last).pre, LocalDate(Val(last).bar.ts),
                           Val(last).bar.high, Val(last).bar.low)

\* C27 witness: a bar outside the session makes a new high and a new low of
\* its day; no signal, and both levels are widened
C27_Witness ==
    /\ pc = "eval" /\ last # None /\ ~EvalInSession
    /\ LevelBefore("high") # None /\ LevelBefore("low") # None
    /\ Val(last).bar.high > Val(LevelBefore("high"))
    /\ Val(last).bar.low < Val(LevelBefore("low"))
    /\ Val(last).signal = "none"
    /\ state.high = Some(Val(last).bar.high)
    /\ state.low = Some(Val(last).bar.low)

\* C28: evaluate_bar is a pure function of (timestamp, bar, state): the
\* state object the caller passed in is unchanged by the call, so a caller
\* that kept it can replay the same bar and get the same signal.
C28_ArgumentUnchangedReplayable ==
    (pc = "eval" /\ last # None) =>
        /\ Val(last).arg = Val(last).pre
        /\ EvaluateBar(Val(last).bar.ts, Val(last).bar, Val(last).arg).signal
              = Val(last).signal

\* C29: an iteration of an instrument's loop closes at most one trade; the
\* k-th EquityPoint carries the exit time of the k-th trade, and among the
\* trades of one instrument these times are strictly increasing in append
\* order. (Across instruments they need not be sorted: the witness.)
C29_OneClosePerBarIncreasingTimes ==
    /\ [][Len(trades') <= Len(trades) + 1
          /\ Len(equity_curve') <= Len(equity_curve) + 1]_vars
    /\ [](/\ Len(equity_curve) = Len(trades)
          /\ \A k \in 1..Len(trades) :
                equity_curve[k].timestamp = trades[k].exit_time
          /\ \A j, k \in 1..Len(trades) :
                (j < k /\ trades[j].symbol = trades[k].symbol) =>
                    equity_curve[j].timestamp < equity_curve[k].timestamp)

\* C29 witness: two trades of the first instrument with increasing exit
\* times, then a trade of the second that exits before the last of them
C29_Witness ==
    /\ pc = "done"
    /\ Len(trades) = 3
    /\ trades[1].symbol = "EURUSD"
    /\ trades[2].symbol = "EURUSD"
    /\ trades[3].symbol = "GBPUSD"
    /\ equity_curve[1].timestamp < equity_curve[2].timestamp
    /\ equity_curve[3].timestamp < equity_curve[2].timestamp

\* what two runs are compared on: a trade without volume, pnl and fees
TradeShape(t) ==
    [symbol |-> t.symbol, side |-> t.side,
     entry_price |-> t.entry_price, exit_price |-> t.exit_price,
     entry_time |-> t.entry_time, exit_time |-> t.exit_time, reason |-> t.reason]

\* an open position without its volume
PositionShape(pos) ==
    IF pos = None THEN None
    ELSE Some([symbol |-> Val(pos).symbol, side |-> Val(pos).side,
               entry_price |-> Val(pos).entry_price, sl_price |-> Val(pos).sl_price,
               tp_price |-> Val(pos).tp_price, entry_time |-> Val(pos).entry_time])

\* the trades appended to before to give after, as shapes
AppendedShapes(before, after) ==
    [k \in 1..(Len(after) - Len(before)) |-> TradeShape(after[Len(before) + k])]

\* what another run may have reached at the same bar of the same instrument:
\* another running equity and another size of the open position
OtherRuns == {[equity |-> R(1), volume |-> Frac(1, 3)],
              [equity |-> R(1000), volume |-> R(7)]}
ResizedPosition(pos, v) ==
    IF pos = None THEN None ELSE Some([Val(pos) EXCEPT !.volume = v])

\* C30: instruments influence each other only through the equity value. An
\* iteration run from another equity, with another size of the open position
\* and other trades before it, returns the same IntradayState, the same
\* position but for its volume, and appends the same trades but for volume,
\* pnl and fees; and loading an instrument starts from a fresh IntradayState
\* and no position, whatever the previous instrument left.
C30_InstrumentsCoupledByEquityOnly ==
    /\ [][pc = "loop" =>
            \A run \in OtherRuns :
                LET other == Iteration(config.symbols[symIdx], Val(bar), Val(bar'),
                                       state, ResizedPosition(position, run.volume),
                                       run.equity, <<>>, <<>>)
                IN  /\ other.state = state'
                    /\ PositionShape(other.position) = PositionShape(position')
                    /\ AppendedShapes(<<>>, other.trades) = AppendedShapes(trades, trades')
                    /\ other.exit_signal = Val(last').exit_signal
                    /\ other.signal = Val(last').signal]_vars
    /\ [][pc = "load" /\ pc' = "loop" =>
            state' = NewIntradayState /\ position' = None]_vars

\* C30 witness: the run ended with a trade of the second instrument that was
\* sized from the equity the first instrument's trade had changed
C30_Witness ==
    /\ pc = "done"
    /\ Len(trades) = 2
    /\ trades[1].symbol = "EURUSD"
    /\ trades[2].symbol = "GBPUSD"
    /\ RLt(equity_curve[1].equity, initial_equity)
    /\ LET stake == RMul(trades[2].volume, trades[2].entry_price)
           share == RMul(equity_curve[1].equity, config.equity_pct_per_trade)
       IN  RLe(stake, share) /\ RLe(share, stake)

\* C31: the state file records, for every symbol, its open position (or none)
\* and the timestamp of the last bar processed for it, and __init__ restores
\* both: once a file is written it has an entry of each kind for every
\* symbol, the bar time being that of the rows last processed, and a
\* process constructed from a file holds those bar times.
C31_PositionsAndBarTimesPersisted ==
    /\ mt5.file # None =>
          /\ "positions" \in DOMAIN Val(mt5.file)
          /\ "last_bar_times" \in DOMAIN Val(mt5.file)
    /\ (pc = "mt5_constructed" /\ mt5.file # None) =>
          \A s \in SymbolSet(config) :
              mt5.feed[s] # None => mt5.last_bar_times[s] # None

\* C34: a position is never closed on a bar older than its entry bar: when
\* the loop has just closed a position, the bar it checked the stop and
\* target against is not earlier than the position's entry_time.
C34_NeverClosedOnBarBeforeEntry ==
    (/\ pc = "mt5_persist"
     /\ mt5.fetched # None
     /\ Val(mt5.fetched).exit_signal # "none") =>
        Val(mt5.feed[Val(mt5.fetched).symbol]).bar.ts
            >= Val(Val(mt5.fetched).pos).entry_time

\* C32: the final bar of a series is never exit-checked and a position still
\* open when the bars run out is dropped: when the run is over no trade exits
\* on the final bar, and an open position has left no Trade and no
\* EquityPoint, the equity being the one after the last closed trade.
C32_OpenPositionDroppedLastBarUnchecked ==
    (pc = "done" /\ bar # None) =>
        /\ \A k \in 1..Len(trades) : trades[k].exit_time < Val(bar).ts
        /\ position # None =>
              /\ \A k \in 1..Len(trades) :
                    trades[k].entry_time < Val(position).entry_time
              /\ Len(equity_curve) = Len(trades)
              /\ equity = IF trades = <<>> THEN initial_equity
                          ELSE equity_curve[Len(equity_curve)].equity

\* C32 witness: the run ended with a position that was opened before the
\* final bar, and the final bar reaches its stop or its target
C32_Witness ==
    /\ pc = "done"
    /\ position # None
    /\ Val(position).entry_time < Val(bar).ts
    /\ ExitSignal(Val(position), Val(bar)) # "none"
    /\ trades = <<>>
    /\ equity = initial_equity

\* C33: every Trade has exit_time >= entry_time, because a position is only
\* exit-checked against its entry bar or a later one: the bar the loop is
\* about to process, and the bar of the last exit check, are never earlier
\* than the entry_time of the position they are checked against.
C33_ExitNotBeforeEntry ==
    /\ \A k \in 1..Len(trades) : trades[k].exit_time >= trades[k].entry_time
    /\ (pc = "loop" /\ position # None) =>
          Val(bar).ts >= Val(position).entry_time
    /\ (last # None /\ Val(last).pos # None) =>
          Val(last).bar.ts >= Val(Val(last).pos).entry_time

\* C33 witness: a position was held over its entry bar and closed by the
\* target on a later bar, the trade's exit_time being after its entry_time
C33_Witness ==
    /\ Len(trades) = 1
    /\ trades[1].reason = "tp"
    /\ trades[1].exit_time > trades[1].entry_time
    /\ last # None
    /\ Val(last).pos # None
    /\ Val(last).exit_signal = "tp"
    /\ Val(last).bar.ts = trades[1].exit_time

\* the net results (pnl - fees) of the trades after the first
LaterResults(trs) ==
    [k \in 1..(Len(trs) - 1) |-> RSub(trs[k + 1].pnl, trs[k + 1].fees)]

\* C35: total_return is measured from the first EquityPoint, the equity
\* after the first closed trade: in the report of a run that closed trades
\* the starting equity is the initial equity plus the first trade's result,
\* total_return is the sum of the later trades' results over that starting
\* equity, and it is 0 for a run with exactly one closed trade.
C35_TotalReturnFromFirstPoint ==
    (pc = "reported" /\ equity_curve # <<>>) =>
        LET m == Val(last).metrics
            starting_equity == equity_curve[1].equity
            later == LaterResults(trades)
        IN  /\ starting_equity = EquityAfter(initial_equity, trades[1])
            /\ Len(trades) = 1 => m.total_return = R(0)
            /\ starting_equity[1] # 0 =>
                  m.total_return = PyDiv(SumR(later, Len(later)), starting_equity)

\* C35 witness: a reported run with two trades, the first of them a loss:
\* total_return is the second trade's result over the equity after the
\* first, not the run's result over the initial equity
C35_Witness ==
    /\ pc = "reported"
    /\ Len(trades) = 2
    /\ RLt(equity_curve[1].equity, initial_equity)
    /\ Val(last).metrics.total_return =
          PyDiv(RSub(trades[2].pnl, trades[2].fees), equity_curve[1].equity)
    /\ Val(last).metrics.total_return #
          PyDiv(RSub(equity, initial_equity), initial_equity)

=============================================================================
